---- MODULE Spec2Model ----
(***************************************************************************)
(* Model of the batch detection pipeline of AviaNZ (src/AviaNZ_batch.py):  *)
(* class AviaNZ_batchProcess with detect, mainloop, loadFile, detectFile,  *)
(* postProcFull, makeSegments and saveAnnotation.                          *)
(*                                                                         *)
(* Times are integers in milliseconds, frequencies in Hz, sample positions *)
(* in samples.  The sample rates of the modelled recordings divide the     *)
(* page starts times 1000, so start / sampleRate is an exact number of     *)
(* milliseconds.  Python's None is the string "None"; an attribute or dict *)
(* key that does not exist is the string "unset" (or "" for a filter key). *)
(***************************************************************************)
EXTENDS Integers, Sequences, FiniteSets, TLC

VARIABLES
    pc,            \* position of the single thread of control
    err,           \* the exception that ended the call ("" when none)
    run,           \* the caller's inputs: entry point, file list, time window
    species,       \* self.species
    method,        \* self.method
    CNNDicts,      \* self.CNNDicts: the names of the CNN models loaded
    args,          \* the arguments of the running mainloop call
    cnt,           \* mainloop: number of files taken from allwavs so far
    filename,      \* self.filename (index into allwavs, 0 when unset)
    segments,      \* self.segments
    sampleRate,    \* self.sampleRate
    datalength,    \* self.datalength
    hasSp,         \* hasattr(self, "sp")
    hasWs,         \* hasattr(self, "ws")
    disk,          \* the sidecar annotation file of each audio file
    log,           \* self.log ("unset": the attribute does not exist)
    loc,           \* the local variables of detectFile
    post,          \* post.segments of the running PostProcess object
    hist,          \* what has been done so far, and the number of detections used
    wizard         \* the clustering page of the training wizard (WPageCluster)

vars == <<pc, err, run, species, method, CNNDicts, args, cnt, filename,
          segments, sampleRate, datalength, hasSp, hasWs, disk, log, loc, post, hist,
          wizard>>

-----------------------------------------------------------------------------
(* Bounds of the model *)

MaxFilters == 2      \* recognisers selected in one run
MaxCand == 2         \* candidates one detector call returns for one subfilter
MaxDetections == 3   \* candidates the detectors return during one call
MaxOld == 2          \* segments in a sidecar file that exists before the run
MaxFiles == 2        \* files in one mainloop call
MaxSegs == 3         \* segments shown on the clustering page

-----------------------------------------------------------------------------
(* Small helpers *)

Min(a, b) == IF a <= b THEN a ELSE b

Range(s) == {s[i] : i \in 1..Len(s)}

RECURSIVE SeqsUpTo(_, _)
SeqsUpTo(S, n) ==
    IF n = 0 THEN {<<>>}
    ELSE LET shorter == SeqsUpTo(S, n - 1)
         IN shorter \cup {Append(s, x) : s \in {t \in shorter : Len(t) = n - 1}, x \in S}

Distinct(s) == \A i, j \in 1..Len(s) : i /= j => s[i] /= s[j]

\* the subsequence of s at the positions in I, in order
RECURSIVE SubSeqAt(_, _, _)
SubSeqAt(s, I, i) ==
    IF i > Len(s) THEN <<>>
    ELSE IF i \in I THEN <<s[i]>> \o SubSeqAt(s, I, i + 1)
    ELSE SubSeqAt(s, I, i + 1)

SubSeqs(s) == {SubSeqAt(s, I, 1) : I \in SUBSET (1..Len(s))}

-----------------------------------------------------------------------------
(* Configuration: the recognisers of the filters directory *)

\* One subfilter.  TimeRange = <<minLen, maxLen, avgSyllableLen, maxGap>>
\* (TimeRange[0] of the source is TimeRange[1] here), FreqRange = <<low, high>>.
\* hasF0 / hasF0Range: the keys "F0" / "F0Range" are present.
\* win: WaveletParams["win"] in milliseconds, -1 when the key is absent.
Subfilter(calltype, TimeRange, FreqRange, hasF0, F0, hasF0Range, win) ==
    [calltype |-> calltype, TimeRange |-> TimeRange, FreqRange |-> FreqRange,
     hasF0 |-> hasF0, F0 |-> F0, hasF0Range |-> hasF0Range, win |-> win]

\* method: "" when the key "method" is absent.  CNN: the CNN_name of the
\* filter's CNN block, "" when the filter has no "CNN" key.
FilterDicts ==
    [name \in {"Kiwi", "Ruru", "Bittern", "Bad"} |->
        CASE name = "Kiwi" ->
               [species |-> "Kiwi sp", SampleRate |-> 16000, method |-> "", CNN |-> "KiwiCNN",
                Filters |-> << Subfilter("M", <<500, 3000, 100, 500>>, <<1200, 9000>>, TRUE, TRUE, TRUE, -1),
                               Subfilter("F", <<0, 3000, 100, 200>>, <<500, 4000>>, FALSE, FALSE, FALSE, -1) >>]
          [] name = "Ruru" ->
               [species |-> "Morepork", SampleRate |-> 8000, method |-> "wv", CNN |-> "RuruCNN",
                Filters |-> << Subfilter("hoot", <<400, 2000, 100, 200>>, <<600, 1200>>, TRUE, FALSE, TRUE, 1000) >>]
          [] name = "Bittern" ->
               [species |-> "Bittern", SampleRate |-> 16000, method |-> "chp", CNN |-> "",
                Filters |-> << Subfilter("boom", <<500, 5000, 100, 1000>>, <<100, 300>>, TRUE, TRUE, TRUE, 20) >>]
          [] OTHER ->
               [species |-> "Bad sp", SampleRate |-> 16000, method |-> "xx", CNN |-> "",
                Filters |-> << Subfilter("c", <<0, 1000, 100, 100>>, <<100, 300>>, FALSE, FALSE, FALSE, -1) >>]]

\* The CNN model files found next to the filters (RuruCNN is missing).
ModelsOnDisk == {"KiwiCNN"}

\* ConfigLoader.CNNmodels: the models of the selected recognisers that load.
CNNmodels(names) ==
    {FilterDicts[n].CNN : n \in {m \in Range(names) : m \in DOMAIN FilterDicts}} \cap ModelsOnDisk

\* self.config["protocolSize"], self.config["protocolInterval"], in seconds
protocolSize == 10
protocolInterval == 60

-----------------------------------------------------------------------------
(* Segments and segment lists *)

Label(sp, certainty, filter, calltype) ==
    [species |-> sp, certainty |-> certainty, filter |-> filter, calltype |-> calltype]

\* Segment.Segment([t0, t1, f0, f1, labels])
Segment(t0, t1, f0, f1, labels) ==
    [t0 |-> t0, t1 |-> t1, f0 |-> f0, f1 |-> f1, labels |-> labels]

\* a metadata dict without keys (Duration -1: no such key)
NoMetadata ==
    [Operator |-> "unset", Reviewer |-> "unset", Duration |-> -1,
     noiseLevel |-> "unset", noiseTypes |-> "unset"]

\* Segment.SegmentList(): no segments, an empty metadata dict
SegmentList == [segs |-> <<>>, metadata |-> NoMetadata]

\* n / fs, a number of samples as a time, in milliseconds
Seconds(n, fs) == (n \div fs) * 1000 + ((n % fs) * 1000) \div fs

\* float(self.datalength) / self.sampleRate
Duration(N, fs) == Seconds(N, fs)

-----------------------------------------------------------------------------
(* The caller's inputs *)

Methods == {"Wavelets", "Default", "Click", "Bats", "Intermittent sampling"}

\* an audio file: stamp is the second six-digit group of the file name read as
\* the number HHMMSS (-1: the name has no DDMMYY_HHMMSS group), fs its sample
\* rate, N its number of samples, hasData / old its sidecar before the run;
\* edge: the recording has sounds at the edges of its pages; long: it has
\* sounds that last longer than maxlen; bursts: it has sounds in quick
\* succession
File(stamp, fs, N, hasData, old) ==
    [stamp |-> stamp, fs |-> fs, N |-> N, hasData |-> hasData, old |-> old, edge |-> FALSE,
     long |-> FALSE, bursts |-> FALSE]

Run(entry, sp, m, allwavs, tws, twe) ==
    [entry |-> entry, species |-> sp, method |-> m, allwavs |-> allwavs,
     tws |-> tws, twe |-> twe, sdir1 |-> ""]

-----------------------------------------------------------------------------
(* External collaborators: util.Segment and util.WaveletSegment.           *)
(* A candidate of a PostProcess object is [t0, t1, cert]: the interval in  *)
(* page-local milliseconds and its certainty.                              *)

Cand(t0, t1, cert) == [t0 |-> t0, t1 |-> t1, cert |-> cert]

\* the intervals a detector can report, in time order
CandPool == << <<1000, 2000>>, <<2300, 2600>>, <<2800, 3500>>, <<4000, 4200>> >>

\* length of an interval reported at the edge of a page
EdgeLen == 600

\* what a detector call can return besides on a recording with sounds at the
\* page edges: a single interval that starts with the page, or one that ends
\* with it
EdgeOutputs(pageLen) ==
    IF pageLen >= EdgeLen THEN {<< <<0, EdgeLen>> >>, << <<pageLen - EdgeLen, pageLen>> >>} ELSE {}

\* what a detector call can return besides on a recording with long sounds:
\* a single interval of 25 seconds, or one of 20 seconds
LongOutputs(pageLen) ==
    {iv \in {<< <<0, 25000>> >>, << <<1000, 21000>> >>} : iv[1][2] <= pageLen}

\* what a detector call can return besides on a recording with sounds in
\* quick succession: two intervals of 0.3 seconds 0.1 seconds apart, or one
\* of a second and one of 0.7 seconds 0.3 seconds apart
BurstOutputs(pageLen) ==
    {iv \in {<< <<1000, 1300>>, <<1400, 1700>> >>, << <<1000, 2000>>, <<2300, 3000>> >>} :
        iv[2][2] <= pageLen}

\* what one detector call can return for one subfilter on a page of pageLen
\* milliseconds: up to MaxCand intervals of the pool that lie inside the page
DetectorOutputs(pageLen) ==
    {iv \in SubSeqs(SubSeq(CandPool, 1, MaxCand)) : \A i \in 1..Len(iv) : iv[i][2] <= pageLen}

\* Segment.PostProcess(segments=..., cert=...): pairs every interval with cert
PostProcess(ivs, cert) == [i \in 1..Len(ivs) |-> Cand(ivs[i][1], ivs[i][2], cert)]

\* the certainty the CNN gives to a candidate it reclassifies upward
CNNCert == 90

\* post.CNN(): drops some candidates; the survivors keep or change certainty
CNNOutcomes(cands) ==
    SubSeqs(cands) \cup {[i \in 1..Len(c) |-> [c[i] EXCEPT !.cert = CNNCert]] : c \in SubSeqs(cands)}

\* post.fundamentalFrq(): drops the candidates whose fundamental frequency
\* is outside F0Range
F0Outcomes(cands) == SubSeqs(cands)

\* post.joinGaps(maxgap): neighbours separated by less than maxgap become one
\* spanning candidate
RECURSIVE joinGaps(_, _)
joinGaps(cands, maxgap) ==
    IF Len(cands) < 2 THEN cands
    ELSE LET a == cands[1]
             b == cands[2]
         IN IF b.t0 - a.t1 < maxgap
            THEN joinGaps(<<Cand(a.t0, IF b.t1 > a.t1 THEN b.t1 ELSE a.t1,
                                 IF b.cert > a.cert THEN b.cert ELSE a.cert)>>
                          \o SubSeq(cands, 3, Len(cands)), maxgap)
            ELSE <<a>> \o joinGaps(Tail(cands), maxgap)

\* post.deleteShort(minlength): drops the candidates shorter than minlength
deleteShort(cands, minlength) == SelectSeq(cands, LAMBDA c : c.t1 - c.t0 >= minlength)

\* the pieces of [t0, t1] of length maxlen, the last one shorter
RECURSIVE Pieces(_, _, _, _)
Pieces(t0, t1, cert, maxlen) ==
    IF t1 - t0 <= maxlen THEN <<Cand(t0, t1, cert)>>
    ELSE <<Cand(t0, t0 + maxlen, cert)>> \o Pieces(t0 + maxlen, t1, cert, maxlen)

\* post.splitLong(maxlen): cuts every candidate longer than maxlen
RECURSIVE splitLong(_, _)
splitLong(cands, maxlen) ==
    IF cands = <<>> THEN <<>>
    ELSE Pieces(cands[1].t0, cands[1].t1, cands[1].cert, maxlen) \o splitLong(Tail(cands), maxlen)

\* SegmentList.addSegment: the segment goes to the end of the list
addSegment(segmentsList, segment) ==
    [segmentsList EXCEPT !.segs = Append(@, segment)]

\* SegmentList.addBasicSegments(segs, [y1, y2], species=, certainty=)
addBasicSegments(segmentsList, segmentsNew, y1, y2, sp, certainty) ==
    [segmentsList EXCEPT !.segs = @ \o
        [i \in 1..Len(segmentsNew) |->
            Segment(segmentsNew[i].t0, segmentsNew[i].t1, y1, y2,
                    <<Label(sp, certainty, "None", "None")>>)]]

\* SegmentList.getSpecies(spname): the indices of the segments that have a
\* label of that species, ascending
getSpecies(segs, spname) ==
    SelectSeq([i \in 1..Len(segs) |-> i],
              LAMBDA i : \E k \in 1..Len(segs[i].labels) : segs[i].labels[k].species = spname)

\* Segment.wipeSpecies(spname): removes the labels of that species ...
wipeSpecies(seg, spname) ==
    [seg EXCEPT !.labels = SelectSeq(@, LAMBDA l : l.species /= spname)]

\* ... and returns True when no label is left
wipeAll(seg, spname) == wipeSpecies(seg, spname).labels = <<>>

\* SegmentList.parseJSON(file, duration): the list as it was saved
parseJSON(data) == [segs |-> data.segs, metadata |-> data.metadata]

\* SegmentList.saveJSON(file)
saveJSON(segmentList) ==
    [exists |-> TRUE, segs |-> segmentList.segs, metadata |-> segmentList.metadata]

NoData == [exists |-> FALSE, segs |-> <<>>, metadata |-> NoMetadata]

-----------------------------------------------------------------------------
(* Pure parts of the program *)

\* constructor defaults: maxgap=1.0, minlen=0.5 (milliseconds)
maxgap == 1000
minlen == 500

\* variant: a default of a hundred times the maximum gap
maxlen_unsplit == 100 * maxgap

\* constructor default: maxlen=10.0 (milliseconds)
maxlen == 10000

\* " & ".join(self.species)
RECURSIVE Join(_)
Join(names) ==
    IF Len(names) = 0 THEN ""
    ELSE IF Len(names) = 1 THEN names[1]
    ELSE names[1] \o " & " \o Join(Tail(names))

\* mainloop: re.search(r"(\d{6})_(\d{6})", basename)
DOCRecording(f) == f.stamp >= 0

\* mainloop: int(startTime[:2])*3600 + int(startTime[2:4])*60 + int(startTime[4:6])
sTime(stamp) == (stamp \div 10000) * 3600 + ((stamp \div 100) % 100) * 60 + (stamp % 100)

\* variant: a window that spans midnight is tested like a day window
inWindow_and(f, timeWindow_s, timeWindow_e) ==
    IF DOCRecording(f)
    THEN IF timeWindow_s = timeWindow_e THEN TRUE
         ELSE sTime(f.stamp) >= timeWindow_s /\ sTime(f.stamp) <= timeWindow_e
    ELSE TRUE

\* mainloop: the time-window test
inWindow(f, timeWindow_s, timeWindow_e) ==
    IF DOCRecording(f)
    THEN IF timeWindow_s = timeWindow_e THEN TRUE
         ELSE IF timeWindow_s < timeWindow_e
              THEN sTime(f.stamp) >= timeWindow_s /\ sTime(f.stamp) <= timeWindow_e
              ELSE sTime(f.stamp) >= timeWindow_s \/ sTime(f.stamp) <= timeWindow_e
    ELSE TRUE

\* the list without its element i
DelAt(s, i) == SubSeq(s, 1, i - 1) \o SubSeq(s, i + 1, Len(s))

\* variant: a segment that lost all its labels stays in the list
RECURSIVE WipeReversed_keep(_, _, _, _)
WipeReversed_keep(segs, oldsegs, k, spname) ==
    IF k = 0 THEN segs
    ELSE WipeReversed_keep([segs EXCEPT ![oldsegs[k]] = wipeSpecies(segs[oldsegs[k]], spname)],
                           oldsegs, k - 1, spname)

\* loadFile: for i in reversed(oldsegs): wipe, and delete when all was wiped
RECURSIVE WipeReversed(_, _, _, _)
WipeReversed(segs, oldsegs, k, spname) ==
    IF k = 0 THEN segs
    ELSE LET i == oldsegs[k]
         IN WipeReversed(IF wipeAll(segs[i], spname)
                         THEN DelAt(segs, i)
                         ELSE [segs EXCEPT ![i] = wipeSpecies(segs[i], spname)],
                         oldsegs, k - 1, spname)

\* loadFile: for sp in species: if sp in self.FilterDicts: wipe its species
RECURSIVE WipeSameSpecies(_, _)
WipeSameSpecies(segs, names) ==
    IF names = <<>> THEN segs
    ELSE IF names[1] \in DOMAIN FilterDicts
         THEN LET spname == FilterDicts[names[1]].species
                  oldsegs == getSpecies(segs, spname)
              IN WipeSameSpecies(WipeReversed(segs, oldsegs, Len(oldsegs), spname), Tail(names))
         ELSE WipeSameSpecies(segs, Tail(names))

\* loadFile: the segment list after "Read in stored segments"
loadFile(f, data, sp, m) ==
    IF sp = <<"Any sound">> \/ ~data.exists \/ m = "Click" \/ m = "Bats"
    THEN [segs |-> <<>>,
          metadata |-> [NoMetadata EXCEPT !.Operator = "Auto", !.Reviewer = "",
                                          !.Duration = Duration(f.N, f.fs)]]
    ELSE [parseJSON(data) EXCEPT !.segs = WipeSameSpecies(@, sp)]

\* addRegularSegments: [i, i + protocolSize] every protocolInterval seconds
RECURSIVE RegularSegments(_, _, _)
RegularSegments(i, N, fs) ==
    IF i * fs < N
    THEN <<Cand(i * 1000, (i + protocolSize) * 1000, 0)>> \o RegularSegments(i + protocolInterval, N, fs)
    ELSE <<>>

\* detectFile: min of WaveletParams.get("win", 1) over all subfilters (ms)
winsize(filters) ==
    LET subfs == UNION {Range(FilterDicts[filters[i]].Filters) : i \in 1..Len(filters)}
        wins == {IF subf.win = -1 THEN 1000 ELSE subf.win : subf \in subfs}
    IN CHOOSE w \in wins : \A v \in wins : w <= v

\* variant: the low-rate rule with "<" for "<="
samplesInPage_strict(fs, m, filters) ==
    IF fs < 4000 THEN 300 * fs
    ELSE IF m = "Wavelets"
         THEN IF winsize(filters) < 50 THEN 225 * fs ELSE 900 * 16000
         ELSE 900 * 16000

\* detectFile: the page length in samples
samplesInPage(fs, m, filters) ==
    IF fs <= 4000 THEN 300 * fs
    ELSE IF m = "Wavelets"
         THEN IF winsize(filters) < 50 THEN 225 * fs ELSE 900 * 16000
         ELSE 900 * 16000

\* variant: floor division plus one
numPages_floor(N, P) == N \div P + 1

\* detectFile: (self.datalength - 1) // samplesInPage + 1
numPages(N, P) == (N - 1) \div P + 1

\* variant: half the sample rate is rounded up
nyquistClip_up(high, fs) == Min(high, (fs + 1) \div 2)

\* makeSegments: min(subfilter["FreqRange"][1], self.sampleRate // 2)
nyquistClip(high, fs) == Min(high, fs \div 2)

\* variant: species and recogniser name change places in the label
RECURSIVE makeSegments_swapped(_, _, _, _, _, _)
makeSegments_swapped(segmentsList, segmentsNew, filtName, sp, subfilter, fs) ==
    IF segmentsNew = <<>> THEN segmentsList
    ELSE LET y1 == subfilter.FreqRange[1]
             y2 == nyquistClip(subfilter.FreqRange[2], fs)
             s == segmentsNew[1]
             segment == Segment(s.t0, s.t1, y1, y2,
                                <<Label(filtName, s.cert, sp, subfilter.calltype)>>)
         IN makeSegments_swapped(addSegment(segmentsList, segment), Tail(segmentsNew),
                                 filtName, sp, subfilter, fs)

\* makeSegments with a subfilter: one labelled Segment per candidate
RECURSIVE makeSegments(_, _, _, _, _, _)
makeSegments(segmentsList, segmentsNew, filtName, sp, subfilter, fs) ==
    IF segmentsNew = <<>> THEN segmentsList
    ELSE LET y1 == subfilter.FreqRange[1]
             y2 == nyquistClip(subfilter.FreqRange[2], fs)
             s == segmentsNew[1]
             segment == Segment(s.t0, s.t1, y1, y2,
                                <<Label(sp, s.cert, filtName, subfilter.calltype)>>)
         IN makeSegments(addSegment(segmentsList, segment), Tail(segmentsNew),
                         filtName, sp, subfilter, fs)

\* variant: a first new candidate that is closer than maxgap to the last
\* segment of the list is merged into that segment
makeBasicSegments_merge(segmentsList, segmentsNew) ==
    IF /\ segmentsList.segs /= <<>>
       /\ segmentsNew /= <<>>
       /\ segmentsNew[1].t0 - segmentsList.segs[Len(segmentsList.segs)].t1 < maxgap
    THEN addBasicSegments([segmentsList EXCEPT !.segs[Len(segmentsList.segs)].t1 = segmentsNew[1].t1],
                          Tail(segmentsNew), 0, 0, "Don't Know", 0)
    ELSE addBasicSegments(segmentsList, segmentsNew, 0, 0, "Don't Know", 0)

\* makeSegments without a subfilter: generic all-species segments
makeBasicSegments(segmentsList, segmentsNew) ==
    addBasicSegments(segmentsList, segmentsNew, 0, 0, "Don't Know", 0)

\* variant: only the start of a candidate is shifted
adjustStarts_startOnly(cands, start, fs) ==
    [i \in 1..Len(cands) |-> [cands[i] EXCEPT !.t0 = @ + Seconds(start, fs)]]

\* postProcFull / detectFile: seg[0][0] += start / fs; seg[0][1] += start / fs
adjustStarts(cands, start, fs) ==
    [i \in 1..Len(cands) |->
        [cands[i] EXCEPT !.t0 = @ + Seconds(start, fs), !.t1 = @ + Seconds(start, fs)]]

\* variant: short candidates are deleted before the gaps are joined
Stages_shortFirst == <<"CNN", "fundamentalFrq", "deleteShort", "joinGaps", "splitLong", "offset", "makeSegments">>

\* the post-processing stages in the order of the code; "splitLong" is in
\* the any-sound branch of detectFile only, the first two in postProcFull only
Stages == <<"CNN", "fundamentalFrq", "joinGaps", "deleteShort", "splitLong", "offset", "makeSegments">>

\* variant: the changepoint method counts as a wavelet method
IsWv_chp(spInfo) == spInfo.method = "" \/ spInfo.method = "wv" \/ spInfo.method = "chp"

\* detectFile, postProcFull: "method" not in spInfo or spInfo["method"] == "wv"
IsWv(spInfo) == spInfo.method = "" \/ spInfo.method = "wv"

\* variant: short candidates are deleted under the wavelet methods only
StageRuns_shortWv(stage, anysound, spInfo, subfilter, CNNmodel, start) ==
    CASE stage = "CNN" -> ~anysound /\ CNNmodel /= "None"
      [] stage = "fundamentalFrq" ->
            ~anysound /\ IsWv(spInfo) /\ subfilter.hasF0 /\ subfilter.hasF0Range /\ subfilter.F0
      [] stage = "joinGaps" -> anysound \/ IsWv(spInfo)
      [] stage = "deleteShort" -> anysound \/ (IsWv(spInfo) /\ subfilter.TimeRange[1] > 0)
      [] stage = "splitLong" -> anysound
      [] stage = "offset" -> start /= 0
      [] OTHER -> TRUE

\* the condition under which the code runs a stage
StageRuns(stage, anysound, spInfo, subfilter, CNNmodel, start) ==
    CASE stage = "CNN" -> ~anysound /\ CNNmodel /= "None"
      [] stage = "fundamentalFrq" ->
            ~anysound /\ IsWv(spInfo) /\ subfilter.hasF0 /\ subfilter.hasF0Range /\ subfilter.F0
      [] stage = "joinGaps" -> anysound \/ IsWv(spInfo)
      [] stage = "deleteShort" -> anysound \/ subfilter.TimeRange[1] > 0
      [] stage = "splitLong" -> anysound
      [] stage = "offset" -> start /= 0
      [] OTHER -> TRUE

\* position of a stage in Stages (0 for the start of post-processing)
StageIx(stage) == IF stage = "" THEN 0 ELSE CHOOSE k \in 1..Len(Stages) : Stages[k] = stage

\* the first stage after `stage` that runs
StageAfter(stage, anysound, spInfo, subfilter, CNNmodel, start) ==
    Stages[CHOOSE j \in (StageIx(stage) + 1)..Len(Stages) :
              /\ StageRuns(Stages[j], anysound, spInfo, subfilter, CNNmodel, start)
              /\ \A i \in (StageIx(stage) + 1)..(j - 1) :
                    ~StageRuns(Stages[i], anysound, spInfo, subfilter, CNNmodel, start)]

\* variant: the list of the file before is kept
newList_keep(previous) == previous

\* mainloop, loadFile: self.segments = Segment.SegmentList(), the list a file
\* starts with, whatever the list of the file before held
newList(previous) == SegmentList

\* variant: the maximum length is taken for the maximum gap
maxGapOf_maxLen(subf) == subf.TimeRange[2]

\* postProcFull: subfilter["TimeRange"][3], the maxgap of joinGaps
maxGapOf(subf) == subf.TimeRange[4]

\* variant: the page is read under the methods that have no wavelet segmenter
readsPage_inverted(m) == m = "Click" \/ m = "Bats"

\* detectFile: self.method != "Click" and self.method != "Bats", the condition
\* of self.ws.readBatch
readsPage(m) == m /= "Click" /\ m /= "Bats"

\* variant: a key that the metadata already has keeps its value
batchMetadata_setdefault(metadata, m, N, fs) ==
    [Operator |-> IF metadata.Operator = "unset" THEN "Auto" ELSE metadata.Operator,
     Reviewer |-> IF metadata.Reviewer = "unset" THEN "" ELSE metadata.Reviewer,
     Duration |-> IF m /= "Intermittent sampling" /\ metadata.Duration = -1
                  THEN Duration(N, fs) ELSE metadata.Duration,
     noiseLevel |-> IF metadata.noiseLevel = "unset" THEN "None" ELSE metadata.noiseLevel,
     noiseTypes |-> IF metadata.noiseTypes = "unset" THEN "[]" ELSE metadata.noiseTypes]

\* saveAnnotation: the default batch-mode metadata written over the metadata
\* of the list
batchMetadata(metadata, m, N, fs) ==
    [metadata EXCEPT !.Operator = "Auto", !.Reviewer = "",
                     !.Duration = IF m /= "Intermittent sampling" THEN Duration(N, fs) ELSE @,
                     !.noiseLevel = "None", !.noiseTypes = "[]"]

\* variant: two sample rates are let through
multipleRates_two(names) ==
    Cardinality({FilterDicts[names[i]].SampleRate : i \in 1..Len(names)}) > 2

\* detect: len(set([filt["SampleRate"] for filt in filters])) > 1
multipleRates(names) ==
    Cardinality({FilterDicts[names[i]].SampleRate : i \in 1..Len(names)}) > 1

\* variant: the pages are taken from the last to the first
pageStart_reversed(page, n, P) == (n - 1 - page) * P

\* detectFile: start = page * samplesInPage for page in range(numPages)
pageStart(page, n, P) == page * P

\* variant: a page of exactly two seconds is skipped too
skipShort_le(start, end, fs, m) ==
    end - start <= 2 * fs /\ m /= "Click" /\ m /= "Bats"

\* detectFile: thisPageLen < 2 and the method is neither "Click" nor "Bats",
\* with thisPageLen = (end - start) / self.sampleRate
skipShort(start, end, fs, m) ==
    end - start < 2 * fs /\ m /= "Click" /\ m /= "Bats"

\* variant: the model a filter names is taken without looking it up
CNNmodelOf_declared(spInfo, dicts) ==
    IF spInfo.CNN /= "" THEN spInfo.CNN ELSE "None"

\* detectFile: CNNmodel = self.CNNDicts[CNN_name] if the filter has a "CNN"
\* block whose CNN_name is in self.CNNDicts, else None
CNNmodelOf(spInfo, dicts) ==
    IF spInfo.CNN /= "" /\ spInfo.CNN \in dicts THEN spInfo.CNN ELSE "None"

\* variant: the changepoint method is sent to the wavelet detector too
usesWavelet_chp(filt) == filt.method = "" \/ filt.method = "wv" \/ filt.method = "chp"

\* detectFile: "method" not in filters[speciesix] or
\* filters[speciesix]["method"] == "wv", the condition of waveletSegment
usesWavelet(filt) == filt.method = "" \/ filt.method = "wv"

\* variant: every method that is not "wv" selects the changepoint detector
detector_else(filt) ==
    IF usesWavelet(filt) THEN "waveletSegment" ELSE "waveletSegmentChp"

\* detectFile: the detector that the method of a filter selects
detector(filt) ==
    IF usesWavelet(filt) THEN "waveletSegment"
    ELSE IF filt.method = "chp" THEN "waveletSegmentChp"
    ELSE "none"

-----------------------------------------------------------------------------
(* State after construction *)

NoArgs == [allwavs |-> <<>>, speciesStr |-> "", filters |-> <<>>, filtersNone |-> TRUE,
           timeWindow_s |-> 0, timeWindow_e |-> 0]

NoLoc == [samplesInPage |-> 0, numPages |-> 0, page |-> 0, start |-> 0, end |-> 0,
          speciesix |-> 0, filtix |-> 0, thisPageSegs |-> <<>>, postsegs |-> FALSE,
          CNNmodel |-> "None"]

NoHist == [decided |-> <<>>, loaded |-> <<>>, detected |-> <<>>, completed |-> {}, saved |-> {},
           stages |-> <<>>, batches |-> <<>>, pages |-> <<>>, pageLocal |-> <<>>,
           detections |-> 0, cnnLoaded |-> FALSE, pre |-> <<>>, calls |-> <<>>]

\* the metadata of a sidecar written by an earlier, manual session
OldMetadata(f) ==
    [Operator |-> "Human", Reviewer |-> "Rev", Duration |-> Duration(f.N, f.fs),
     noiseLevel |-> "None", noiseTypes |-> "[]"]

\* The object after __init__, for the run r.  __init__ sets self.species to
\* [recogniser]; selections of several recognisers are assigned to the
\* attribute by the user of the class.  A run that enters through detect
\* starts without self.method; a run that calls mainloop directly has
\* self.method and self.CNNDicts assigned by the caller.  self.log is assigned
\* nowhere.  A run of the command line (AviaNZ.py) constructs the object with
\* (configdir, args.sdir1, args.recogniser): the directory is the second
\* positional argument, recogniser, and the recogniser name the third, maxgap.
InitWith(r) ==
    /\ run = r
    /\ pc = "idle"
    /\ err = ""
    /\ species = IF r.entry = "cli" THEN <<r.sdir1>> ELSE r.species
    /\ method = r.method
    /\ CNNDicts = IF r.entry = "mainloop" THEN CNNmodels(r.species) ELSE {}
    /\ args = NoArgs
    /\ cnt = 0
    /\ filename = 0
    /\ segments = SegmentList
    /\ sampleRate = 0
    /\ datalength = 0
    /\ hasSp = FALSE
    /\ hasWs = FALSE
    /\ disk = [i \in 1..Len(r.allwavs) |->
                  IF r.allwavs[i].hasData
                  THEN [exists |-> TRUE, segs |-> r.allwavs[i].old,
                        metadata |-> OldMetadata(r.allwavs[i])]
                  ELSE NoData]
    /\ log = "unset"
    /\ loc = NoLoc
    /\ post = <<>>
    /\ hist = NoHist

-----------------------------------------------------------------------------
(* The operations *)

\* variant: the error is noted and the loop over the files goes on
Raise_continue(e) == pc' = "mainloop" /\ err' = e

\* an exception: nothing in the class catches it, the run ends
Raise(e) == pc' = "error" /\ err' = e

\* detect(filename): chooses the filters and calls mainloop on the file
detect ==
    /\ pc = "idle"
    /\ UNCHANGED wizard
    /\ run.entry = "detect"
    /\ method' = "Wavelets"
    /\ IF \E i \in 1..Len(species) : species[i] \notin DOMAIN FilterDicts
       THEN /\ Raise("KeyError")
            /\ UNCHANGED <<CNNDicts, args, hist>>
       ELSE IF multipleRates(species)
            THEN /\ Raise("ValueError")
                 /\ UNCHANGED <<CNNDicts, args, hist>>
            ELSE /\ CNNDicts' = CNNmodels(species)
                 /\ hist' = [hist EXCEPT !.cnnLoaded = TRUE]
                 /\ args' = [allwavs |-> <<run.allwavs[1]>>, speciesStr |-> Join(species),
                             filters |-> species, filtersNone |-> FALSE,
                             timeWindow_s |-> 0, timeWindow_e |-> 0]
                 /\ pc' = "mainloop"
                 /\ err' = err
    /\ UNCHANGED <<run, species, cnt, filename, segments, sampleRate, datalength,
                   hasSp, hasWs, disk, log, loc, post>>

\* AviaNZ.py: after the constructor the script prints "Batch process
\* complete" and ends
commandLine ==
    /\ pc = "idle"
    /\ UNCHANGED wizard
    /\ run.entry = "cli"
    /\ pc' = "done"
    /\ UNCHANGED <<err, run, species, method, CNNDicts, args, cnt, filename, segments,
                   sampleRate, datalength, hasSp, hasWs, disk, log, loc, post, hist>>

\* mainloop(allwavs, total, speciesStr, filters, settings) called directly
mainloop ==
    /\ pc = "idle"
    /\ UNCHANGED wizard
    /\ run.entry = "mainloop"
    /\ args' = [allwavs |-> run.allwavs,
                speciesStr |-> Join(species),
                filters |-> IF species = <<"Any sound">> THEN <<>> ELSE species,
                filtersNone |-> (species = <<"Any sound">>),
                timeWindow_s |-> run.tws, timeWindow_e |-> run.twe]
    /\ pc' = "mainloop"
    /\ UNCHANGED <<err, run, species, method, CNNDicts, cnt, filename, segments,
                   sampleRate, datalength, hasSp, hasWs, disk, log, loc, post, hist>>

\* mainloop: the head of "for filename in allwavs" and the time-window test
nextFile ==
    /\ pc = "mainloop"
    /\ UNCHANGED wizard
    /\ IF cnt = Len(args.allwavs)
       THEN /\ pc' = "done"
            /\ UNCHANGED <<err, cnt, log>>
       ELSE /\ cnt' = cnt + 1
            /\ LET f == args.allwavs[cnt + 1]
               IN IF DOCRecording(f) /\ ~inWindow(f, args.timeWindow_s, args.timeWindow_e)
                  THEN IF log = "unset"
                       THEN Raise("AttributeError") /\ log' = log
                       ELSE /\ log' = Append(log, cnt + 1)
                            /\ UNCHANGED <<pc, err>>
                  ELSE /\ pc' = "file"
                       /\ UNCHANGED <<err, log>>
    /\ hist' = IF cnt = Len(args.allwavs) THEN hist
               ELSE [hist EXCEPT !.decided = Append(@,
                        inWindow(args.allwavs[cnt + 1], args.timeWindow_s, args.timeWindow_e))]
    /\ UNCHANGED <<run, species, method, CNNDicts, args, filename, segments, sampleRate,
                   datalength, hasSp, hasWs, disk, loc, post>>

\* mainloop: "ALL SYSTEMS GO": new segment list, loadFile, empty segmenter
processFile ==
    /\ pc = "file"
    /\ UNCHANGED wizard
    /\ filename' = cnt
    /\ LET f == args.allwavs[cnt]
       IN IF method = "unset"
          THEN /\ Raise("AttributeError")
               /\ segments' = SegmentList
               /\ UNCHANGED <<sampleRate, datalength, hasSp, hasWs, hist>>
          ELSE IF method = "Intermittent sampling"
          THEN /\ segments' = makeBasicSegments(
                     [SegmentList EXCEPT !.metadata =
                         [NoMetadata EXCEPT !.Operator = "Auto", !.Reviewer = "",
                                            !.Duration = Duration(f.N, f.fs)]],
                     RegularSegments(0, f.N, f.fs))
               /\ pc' = "mainloop"
               /\ UNCHANGED <<err, sampleRate, datalength, hasSp, hasWs, hist>>
          ELSE /\ sampleRate' = f.fs
               /\ datalength' = f.N
               /\ segments' = [loadFile(f, disk[cnt], species, method) EXCEPT
                                  !.segs = newList(segments).segs \o @]
               /\ hist' = [hist EXCEPT !.loaded = Append(@, cnt)]
               /\ hasWs' = (hasWs \/ method = "Wavelets")
               /\ hasSp' = (method /= "Wavelets")
               /\ pc' = "detectFile"
               /\ err' = err
    /\ UNCHANGED <<run, species, method, CNNDicts, args, cnt, disk, log, loc, post>>

anysound == args.speciesStr = "Any sound"

\* the filter and subfilter being post-processed
spInfo == FilterDicts[args.filters[loc.speciesix]]
subfilter == spInfo.Filters[loc.filtix]

\* length of the current page in milliseconds
pageLen == Seconds(loc.end - loc.start, sampleRate)

\* what a detector call can return on the current page
pageOutputs ==
    DetectorOutputs(pageLen)
        \cup (IF args.allwavs[filename].edge THEN EdgeOutputs(pageLen) ELSE {})
        \cup (IF args.allwavs[filename].long THEN LongOutputs(pageLen) ELSE {})
        \cup (IF args.allwavs[filename].bursts THEN BurstOutputs(pageLen) ELSE {})

\* a call made for the current page: of the wavelet segmenter (readBatch, a
\* detector of filter speciesix) or of postProcFull (filter and subfilter)
Call(kind, speciesix, filtix) ==
    [kind |-> kind, file |-> filename, page |-> loc.page, speciesix |-> speciesix,
     filtix |-> filtix]

\* detectFile: the page size and the number of pages
pageSize ==
    /\ pc = "detectFile"
    /\ UNCHANGED wizard
    /\ IF sampleRate > 4000 /\ method = "Wavelets" /\ args.filtersNone
       THEN /\ Raise("TypeError")
            /\ loc' = NoLoc
       ELSE LET P == samplesInPage(sampleRate, method, args.filters)
            IN /\ loc' = [NoLoc EXCEPT !.samplesInPage = P, !.numPages = numPages(datalength, P)]
               /\ pc' = "page"
               /\ err' = err
    /\ hist' = [hist EXCEPT !.pages = <<>>]
    /\ UNCHANGED <<run, species, method, CNNDicts, args, cnt, filename, segments,
                   sampleRate, datalength, hasSp, hasWs, disk, log, post>>

\* detectFile: the head of "for page in range(numPages)", the skip of a short
\* page, and "return len(postsegs)" after the last page
nextPage ==
    /\ pc = "page"
    /\ UNCHANGED wizard
    /\ IF loc.page >= loc.numPages
       THEN /\ IF loc.postsegs
               THEN /\ pc' = "mainloop"
                    /\ err' = err
                    /\ hist' = [hist EXCEPT !.completed = @ \cup {filename}]
               ELSE /\ Raise("UnboundLocalError")
                    /\ hist' = hist
            /\ loc' = loc
       ELSE LET start == pageStart(loc.page, loc.numPages, loc.samplesInPage)
                end == Min(start + loc.samplesInPage, datalength)
            IN /\ loc' = [loc EXCEPT !.page = @ + 1, !.start = start, !.end = end]
               /\ hist' = [hist EXCEPT !.pages = Append(@, <<start, end>>)]
               /\ err' = err
               /\ pc' = IF skipShort(start, end, sampleRate, method)
                        THEN "page"
                        ELSE IF anysound THEN "medianClip" ELSE "readBatch"
    /\ UNCHANGED <<run, species, method, CNNDicts, args, cnt, filename, segments,
                   sampleRate, datalength, hasSp, hasWs, disk, log, post>>

\* where control goes after a stage
AfterStage(stage) ==
    pc' = StageAfter(stage, anysound, spInfo, subfilter, loc.CNNmodel, loc.start)

StageFrame ==
    UNCHANGED <<err, run, species, method, CNNDicts, args, cnt, filename, segments,
                sampleRate, datalength, hasSp, hasWs, disk, log, loc>>

\* detectFile, any sound: spectrogram, median clipping, PostProcess(cert=0)
medianClip ==
    /\ pc = "medianClip"
    /\ UNCHANGED wizard
    /\ hasSp' = TRUE
    /\ \E ivs \in pageOutputs :
          /\ Len(ivs) <= MaxDetections - hist.detections
          /\ post' = PostProcess(ivs, 0)
          /\ hist' = [hist EXCEPT !.detections = @ + Len(ivs),
                                  !.detected = Append(@, <<filename, loc.page, 0, "medianClip">>),
                                  !.stages = <<>>,
                                  !.pageLocal = PostProcess(ivs, 0)]
    /\ AfterStage("")
    /\ UNCHANGED <<err, run, species, method, CNNDicts, args, cnt, filename, segments,
                   sampleRate, datalength, hasWs, disk, log, loc>>

\* detectFile: self.ws.readBatch(page) unless the method is Click or Bats
readBatch ==
    /\ pc = "readBatch"
    /\ UNCHANGED wizard
    /\ IF readsPage(method) /\ ~hasWs
       THEN Raise("AttributeError") /\ UNCHANGED <<loc, hist>>
       ELSE /\ pc' = "dispatch"
            /\ err' = err
            /\ loc' = [loc EXCEPT !.speciesix = 1]
            /\ hist' = IF readsPage(method)
                       THEN [hist EXCEPT !.calls = Append(@, Call("readBatch", 0, 0))]
                       ELSE hist
    /\ UNCHANGED <<run, species, method, CNNDicts, args, cnt, filename, segments,
                   sampleRate, datalength, hasSp, hasWs, disk, log, post>>

\* detectFile: the detector of filter speciesix, chosen by its method
dispatch ==
    /\ pc = "dispatch"
    /\ UNCHANGED wizard
    /\ LET filt == FilterDicts[args.filters[loc.speciesix]]
           kind == detector(filt)
       IN IF kind = "none"
          THEN /\ Raise("Exception")
               /\ UNCHANGED <<loc, hist>>
          ELSE IF ~hasWs
          THEN /\ Raise("AttributeError")
               /\ UNCHANGED <<loc, hist>>
          ELSE /\ \E out \in [1..Len(filt.Filters) -> pageOutputs] :
                     LET n == IF Len(filt.Filters) = 1 THEN Len(out[1])
                              ELSE Len(out[1]) + Len(out[2])
                     IN /\ n <= MaxDetections - hist.detections
                        /\ loc' = [loc EXCEPT !.thisPageSegs = out, !.filtix = 1]
                        /\ hist' = [hist EXCEPT !.detections = @ + n,
                                       !.detected = Append(@, <<filename, loc.page, loc.speciesix, kind>>),
                                       !.calls = Append(@, Call(kind, loc.speciesix, 0))]
               /\ pc' = "postProcFull"
               /\ err' = err
    /\ UNCHANGED <<run, species, method, CNNDicts, args, cnt, filename, segments,
                   sampleRate, datalength, hasSp, hasWs, disk, log, post>>

\* detectFile: the CNN model of the filter; postProcFull: the PostProcess
\* object over the candidates of subfilter filtix (cert=50)
postProcFull ==
    /\ pc = "postProcFull"
    /\ UNCHANGED wizard
    /\ LET CNNmodel == CNNmodelOf(spInfo, CNNDicts)
       IN /\ loc' = [loc EXCEPT !.CNNmodel = CNNmodel]
          /\ pc' = StageAfter("", FALSE, spInfo, subfilter, CNNmodel, loc.start)
    /\ post' = PostProcess(loc.thisPageSegs[loc.filtix], 50)
    /\ hist' = [hist EXCEPT !.stages = <<>>, !.pageLocal = post',
                            !.calls = Append(@, Call("postProcFull", loc.speciesix, loc.filtix))]
    /\ UNCHANGED <<err, run, species, method, CNNDicts, args, cnt, filename, segments,
                   sampleRate, datalength, hasSp, hasWs, disk, log>>

\* postProcFull: post.CNN()
CNN ==
    /\ pc = "CNN"
    /\ UNCHANGED wizard
    /\ post' \in CNNOutcomes(post)
    /\ hist' = [hist EXCEPT !.stages = Append(@, "CNN"), !.pageLocal = post',
                            !.pre = post]
    /\ AfterStage("CNN")
    /\ StageFrame

\* postProcFull: post.fundamentalFrq()
fundamentalFrq ==
    /\ pc = "fundamentalFrq"
    /\ UNCHANGED wizard
    /\ post' \in F0Outcomes(post)
    /\ hist' = [hist EXCEPT !.stages = Append(@, "fundamentalFrq"), !.pageLocal = post',
                            !.pre = post]
    /\ AfterStage("fundamentalFrq")
    /\ StageFrame

\* postProcFull: post.joinGaps(maxgap=subfilter["TimeRange"][3]);
\* detectFile, any sound: post.joinGaps(self.maxgap)
joinGapsStage ==
    /\ pc = "joinGaps"
    /\ UNCHANGED wizard
    /\ post' = joinGaps(post, IF anysound THEN maxgap ELSE maxGapOf(subfilter))
    /\ hist' = [hist EXCEPT !.stages = Append(@, "joinGaps"), !.pageLocal = post',
                            !.pre = post]
    /\ AfterStage("joinGaps")
    /\ StageFrame

\* postProcFull: post.deleteShort(minlength=subfilter["TimeRange"][0]);
\* detectFile, any sound: post.deleteShort(self.minlen)
deleteShortStage ==
    /\ pc = "deleteShort"
    /\ UNCHANGED wizard
    /\ post' = deleteShort(post, IF anysound THEN minlen ELSE subfilter.TimeRange[1])
    /\ hist' = [hist EXCEPT !.stages = Append(@, "deleteShort"), !.pageLocal = post',
                            !.pre = post]
    /\ AfterStage("deleteShort")
    /\ StageFrame

\* detectFile, any sound: post.splitLong(self.maxlen)
splitLongStage ==
    /\ pc = "splitLong"
    /\ UNCHANGED wizard
    /\ post' = splitLong(post, maxlen)
    /\ hist' = [hist EXCEPT !.stages = Append(@, "splitLong"), !.pageLocal = post',
                            !.pre = post]
    /\ AfterStage("splitLong")
    /\ StageFrame

\* postProcFull / detectFile: adjust segment starts for the page
offset ==
    /\ pc = "offset"
    /\ UNCHANGED wizard
    /\ post' = adjustStarts(post, loc.start, sampleRate)
    /\ hist' = [hist EXCEPT !.stages = Append(@, "offset"), !.pre = post]
    /\ AfterStage("offset")
    /\ StageFrame

\* makeSegments: attach the filter info (frequency range, label) and put the
\* candidates on self.segments; then the next subfilter, filter or page
makeSegmentsStage ==
    /\ pc = "makeSegments"
    /\ UNCHANGED wizard
    /\ segments' = IF anysound THEN makeBasicSegments(segments, post)
                   ELSE makeSegments(segments, post, species[loc.speciesix],
                                     spInfo.species, subfilter, sampleRate)
    /\ hist' = [hist EXCEPT !.stages = Append(@, "makeSegments"),
                   !.batches = Append(@, [file |-> filename, page |-> loc.page, start |-> loc.start,
                                          speciesix |-> loc.speciesix, filtix |-> loc.filtix,
                                          first |-> Len(segments.segs) + 1, n |-> Len(post)])]
    /\ IF anysound
       THEN /\ pc' = "page"
            /\ loc' = loc
       ELSE IF loc.filtix < Len(spInfo.Filters)
       THEN /\ pc' = "postProcFull"
            /\ loc' = [loc EXCEPT !.filtix = @ + 1, !.postsegs = TRUE]
       ELSE IF loc.speciesix < Len(args.filters)
       THEN /\ pc' = "dispatch"
            /\ loc' = [loc EXCEPT !.speciesix = @ + 1, !.postsegs = TRUE]
       ELSE /\ pc' = "page"
            /\ loc' = [loc EXCEPT !.postsegs = TRUE]
    /\ UNCHANGED <<err, run, species, method, CNNDicts, args, cnt, filename,
                   sampleRate, datalength, hasSp, hasWs, disk, log, post>>

\* saveAnnotation(self.segments), called by the user of the class after the
\* run: batch-mode metadata, then the list goes to the sidecar file
saveAnnotation ==
    /\ pc = "done"
    /\ UNCHANGED wizard
    /\ filename /= 0
    /\ method = "Intermittent sampling" \/ sampleRate /= 0
    /\ LET segmentList ==
             [segments EXCEPT !.metadata = batchMetadata(@, method, datalength, sampleRate)]
       IN /\ segments' = segmentList
          /\ disk' = [disk EXCEPT ![filename] = saveJSON(segmentList)]
    /\ hist' = [hist EXCEPT !.saved = @ \cup {filename}]
    /\ UNCHANGED <<pc, err, run, species, method, CNNDicts, args, cnt, filename,
                   sampleRate, datalength, hasSp, hasWs, log, loc, post>>

-----------------------------------------------------------------------------
(* The runs explored *)

FilterNames == DOMAIN FilterDicts

\* selections of recognisers
Selections(names) == {sp \in SeqsUpTo(names, MaxFilters) : sp /= <<>> /\ Distinct(sp)}

Plain(fs, N) == File(-1, fs, N, FALSE, <<>>)

\* recordings of 1 sample per second: zero to MaxFiles full pages of 300
\* samples, followed by a rest of 0, 1, 2 or 299 samples
SlowFiles == {Plain(1, k * 300 + d) : k \in 0..MaxFiles, d \in {0, 1, 2, 299}}

\* recordings around the sample-rate limit of the paging rule, and a long one
FastFiles == {Plain(2000, 1000000), Plain(4000, 1208000), Plain(4001, 908227),
              Plain(16000, 3648000), Plain(16000, 14448000), Plain(16000, 16000)}

\* the pipeline: every selection, through detect, on a two-page recording
PipelineRuns ==
    {Run("detect", sp, "unset", <<f>>, 0, 0) :
        sp \in Selections(FilterNames \cup {"Any sound"}),
        f \in {Plain(16000, 3648000), Plain(1, 302)}}

\* paging: one recogniser, every method, every recording
PagingRuns ==
    {Run("mainloop", sp, m, <<f>>, 0, 0) :
        sp \in {<<"Ruru">>, <<"Bittern">>, <<"Bad">>, <<"Any sound">>}, m \in Methods,
        f \in SlowFiles \cup FastFiles}

\* frequency range against sample rate: the recogniser with two subfilters on
\* three-second recordings of even and odd rates, below and above twice the
\* edges of its frequency ranges
NyquistRates == {2000, 7999, 16000, 17999, 18001}

NyquistRuns ==
    {Run("mainloop", <<"Kiwi">>, "Wavelets", <<Plain(fs, 3 * fs)>>, 0, 0) : fs \in NyquistRates}

\* sounds across a page boundary: a recording of a full page and a page of
\* two seconds, with sounds at the page edges
EdgeFile(fs, N) == [Plain(fs, N) EXCEPT !.edge = TRUE]

EdgeRuns ==
    {Run("mainloop", sp, "Wavelets", <<EdgeFile(1, 302)>>, 0, 0) :
        sp \in {<<"Ruru">>, <<"Bittern">>, <<"Any sound">>}}

\* the command line: -d with a directory of recordings, -r with a recogniser
CLIRun(d, r, allwavs) == [Run("cli", <<r>>, "unset", allwavs, 0, 0) EXCEPT !.sdir1 = d]

CLIRuns ==
    {CLIRun("recordings", r, wavs) :
        r \in {"Kiwi", "Ruru"},
        wavs \in {<<Plain(16000, 3648000)>>, <<Plain(1, 302), Plain(1, 2)>>}}

\* errors inside a file: a list of two recordings, the first of two pages,
\* with a recogniser of an unsupported method behind a supported one, and in
\* any-sound mode
AbortRuns ==
    {Run("mainloop", sp, "Wavelets", <<Plain(1, 302), Plain(1, 2)>>, 0, 0) :
        sp \in {<<"Bittern", "Bad">>, <<"Bad">>, <<"Any sound">>, <<"Bittern">>}}

\* long sounds: a recording of a full page and a page of thirty seconds with
\* sounds of 20 and 25 seconds, in any-sound mode and with a recogniser
LongFile(fs, N) == [Plain(fs, N) EXCEPT !.long = TRUE]

LongRuns ==
    {Run("mainloop", sp, m, <<LongFile(1, 330)>>, 0, 0) :
        sp \in {<<"Any sound">>, <<"Ruru">>}, m \in {"Default", "Wavelets"}}

\* sounds in quick succession: a recording of four seconds, with recognisers
\* of each method
BurstFile(fs, N) == [Plain(fs, N) EXCEPT !.bursts = TRUE]

BurstRuns ==
    {Run("mainloop", sp, "Wavelets", <<BurstFile(1, 4)>>, 0, 0) :
        sp \in {<<"Kiwi">>, <<"Ruru">>, <<"Bittern">>}}

\* label lists of the segments of an old sidecar
OldLabels ==
    {labs \in SeqsUpTo({Label(sp, 100, "M", "None") : sp \in {"Kiwi sp", "Bittern", "Tui"}}, 2) :
        labs /= <<>>}

OldLists ==
    {[i \in 1..Len(labs) |-> Segment(10000 * i, 10000 * i + 500, 0, 8000, labs[i])] :
        labs \in SeqsUpTo(OldLabels, MaxOld)}

\* re-detection: a recording with an old sidecar; detection goes on after the
\* reload when the recording has two seconds (the lists of at most one
\* segment), and stops when it has one second
ReloadRuns ==
    {Run(e, sp, IF e = "detect" THEN "unset" ELSE m, <<File(-1, 1, IF Len(old) <= 1 THEN 2 ELSE 1, TRUE, old)>>, 0, 0) :
        e \in {"detect", "mainloop"}, m \in {"Wavelets", "Bats"},
        sp \in Selections({"Kiwi", "Bittern"}) \cup {<<"Any sound">>},
        old \in OldLists}

Stamps == {-1, 0, 75959, 80000, 83000, 170000, 180000, 230000}
Windows == {0, 28800, 61200}

\* two recordings, the second with an old sidecar of one segment
OwnerRuns ==
    {Run("mainloop", <<"Bittern">>, "Wavelets",
         <<Plain(1, 2), File(-1, 1, 2, TRUE, old)>>, 0, 0) :
        old \in {o \in OldLists : Len(o) = 1}}

\* time window: lists of two-second recordings with names of every kind
WindowRuns ==
    {Run("mainloop", <<"Ruru">>, "Wavelets", wavs, tws, twe) :
        wavs \in {w \in SeqsUpTo({File(st, 1, 2, FALSE, <<>>) : st \in Stamps}, MaxFiles) : w /= <<>>},
        tws \in Windows, twe \in Windows}

\* 'Cluster_' + str(n)
ClusterName(n) == <<"Cluster_", n>>

\* WPageCluster.__init__: self.clusters = {}, self.nclasses = 0, no segments.
\* segments holds seg[-1], the cluster ID, of every segment; op is the
\* listener that ran last, err the exception it raised
NoPage == [nclasses |-> 0, clusters |-> [i \in {} |-> ""], segments |-> <<>>,
           op |-> "", err |-> ""]

Runs == PipelineRuns \cup PagingRuns \cup ReloadRuns \cup WindowRuns \cup NyquistRuns
            \cup EdgeRuns \cup CLIRuns \cup AbortRuns \cup LongRuns
            \cup BurstRuns \cup OwnerRuns

Init == (\E r \in Runs : InitWith(r)) /\ wizard = NoPage

Next ==
    \/ commandLine
    \/ detect
    \/ mainloop
    \/ nextFile
    \/ processFile
    \/ pageSize
    \/ nextPage
    \/ medianClip
    \/ readBatch
    \/ dispatch
    \/ postProcFull
    \/ CNN
    \/ fundamentalFrq
    \/ joinGapsStage
    \/ deleteShortStage
    \/ splitLongStage
    \/ offset
    \/ makeSegmentsStage
    \/ saveAnnotation

Spec == Init /\ [][Next]_vars

------------------------------------------------------------------------------
(* BuildRecAdvWizard.WPageCluster: the clustering page of the training wizard *)

\* initializePage, addButtons: the clustering returns the segments with their
\* class labels and the number of classes; the dictionary is
\* {i: 'Cluster_' + str(i)} for i in range(self.nclasses)
Pages ==
    {[NoPage EXCEPT !.nclasses = x[1],
                    !.clusters = [i \in 0..(x[1] - 1) |-> ClusterName(i)],
                    !.segments = x[2]] :
        x \in {y \in (1..MaxSegs) \X SeqsUpTo(0..(MaxSegs - 1), MaxSegs) :
                  Range(y[2]) = 0..(y[1] - 1)}}

\* self.flowLayout.layout.geometry().height(); setMinimumSize(380, 247)
LayoutHeight == 247

\* the vertical positions inside the layout a button can be dropped on
DropPositions == 0..(LayoutHeight - 1)

\* moveSelectedSegs: movetoID = dragPosy//(height//self.nclasses)
movetoID(dragPosy, height, nclasses) == dragPosy \div (height \div nclasses)

\* 'for seg in self.segments: seg[-1] = labels[seg[-1]]': the loop stops with
\* a KeyError at the first segment whose ID has no new label
relabel(segs, labels) ==
    LET bad == {i \in 1..Len(segs) : segs[i] \notin DOMAIN labels}
        first == CHOOSE i \in bad : \A j \in bad : i <= j
    IN  IF bad = {}
        THEN [segments |-> [i \in 1..Len(segs) |-> labels[segs[i]]], err |-> ""]
        ELSE [segments |-> [i \in 1..Len(segs) |->
                               IF i < first THEN labels[segs[i]] ELSE segs[i]],
              err |-> "KeyError"]

\* the clusters without a member
todelete(clusters, segs) == {ID \in DOMAIN clusters : ID \notin Range(segs)}

\* 'delete clusters with no members' of moveSelectedSegs, createNewcluster
\* and deleteSelectedSegs: the keys that stay are numbered again from the
\* top, the dictionary is rebuilt and the segments are relabelled.
\* createNewcluster assigns self.nclasses before the loop over the segments
\* (early), the other two after it
deleteEmpty(w, segs, early) ==
    LET gone == todelete(w.clusters, segs)
        keys == (0..(w.nclasses - 1)) \ gone
        nclasses == w.nclasses - Cardinality(gone)
        labels == [c \in keys |-> (nclasses - 1) - Cardinality({k \in keys : k > c})]
        R == relabel(segs, labels)
    IN  IF gone = {}
        THEN [w EXCEPT !.segments = segs]
        ELSE IF ~(keys \subseteq DOMAIN w.clusters)
        THEN [w EXCEPT !.segments = segs, !.err = "KeyError"]
        ELSE [w EXCEPT !.clusters = [d \in {labels[i] : i \in keys} |->
                                        w.clusters[CHOOSE i \in keys : labels[i] = d]],
                       !.nclasses = IF early \/ R.err = "" THEN nclasses ELSE @,
                       !.segments = R.segments,
                       !.err = R.err]

\* merge: the rows checked become cluster 0, the others are numbered again
\* from the top
merge ==
    /\ wizard.err = ""
    /\ \E tomerge \in SUBSET (0..(wizard.nclasses - 1)) :
          IF Cardinality(tomerge) < 2
          THEN wizard' = [wizard EXCEPT !.op = "none"]
          ELSE LET nclasses == wizard.nclasses - Cardinality(tomerge) + 1
                   keys == (0..(wizard.nclasses - 1)) \ tomerge
                   labels == [c \in 0..(wizard.nclasses - 1) |->
                                 IF c \in tomerge THEN 0
                                 ELSE (nclasses - 1) - Cardinality({k \in keys : k > c})]
                   first == CHOOSE c \in tomerge : \A k \in tomerge : c <= k
                   R == relabel(wizard.segments, labels)
               IN  wizard' = [wizard EXCEPT
                       !.clusters = [d \in {0} \cup {labels[i] : i \in keys} |->
                                        IF d \in {labels[i] : i \in keys}
                                        THEN wizard.clusters[CHOOSE i \in keys : labels[i] = d]
                                        ELSE wizard.clusters[first]],
                       !.nclasses = nclasses,
                       !.segments = R.segments,
                       !.err = R.err,
                       !.op = "merge"]
    /\ UNCHANGED <<pc, err, run, species, method, CNNDicts, args, cnt, filename,
                   segments, sampleRate, datalength, hasSp, hasWs, disk, log, loc,
                   post, hist>>

\* moveSelectedSegs(dragPosy, source): the dragged button is marked as well,
\* and the marked buttons go to the cluster under the drop position; a drag
\* that ends in the cluster of the dragged button is a click
moveSelectedSegs ==
    /\ wizard.err = ""
    /\ \E marked \in SUBSET (1..Len(wizard.segments)) \ {{}} : \E source \in marked :
          IF wizard.nclasses = 0 \/ LayoutHeight \div wizard.nclasses = 0
          THEN wizard' = [wizard EXCEPT !.err = "ZeroDivisionError", !.op = "move"]
          ELSE \E ID \in {movetoID(dragPosy, LayoutHeight, wizard.nclasses) :
                              dragPosy \in DropPositions} :
                  LET moved == [i \in 1..Len(wizard.segments) |->
                                   IF i \in marked THEN ID ELSE wizard.segments[i]]
                  IN  IF wizard.segments[source] = ID
                      THEN wizard' = [wizard EXCEPT !.op = "none"]
                      ELSE wizard' = [deleteEmpty(wizard, moved, FALSE) EXCEPT
                                         !.op = "move"]
    /\ UNCHANGED <<pc, err, run, species, method, CNNDicts, args, cnt, filename,
                   segments, sampleRate, datalength, hasSp, hasWs, disk, log, loc,
                   post, hist>>

\* createNewcluster: the marked buttons go to a new cluster named
\* 'Cluster_<n>' with the first n that gives a name not in use
createNewcluster ==
    /\ wizard.err = ""
    /\ \E marked \in SUBSET (1..Len(wizard.segments)) :
          IF marked = {}
          THEN wizard' = [wizard EXCEPT !.op = "none"]
          ELSE LET names == {wizard.clusters[ID] : ID \in DOMAIN wizard.clusters}
                   nextNumber == CHOOSE n \in 0..Cardinality(names) :
                                    /\ ClusterName(n) \notin names
                                    /\ \A k \in 0..(n - 1) : ClusterName(k) \in names
                   newID == Cardinality(DOMAIN wizard.clusters)
                   added == [wizard EXCEPT
                                !.clusters = [d \in DOMAIN @ \cup {newID} |->
                                                 IF d = newID THEN ClusterName(nextNumber)
                                                 ELSE @[d]],
                                !.nclasses = @ + 1]
                   moved == [i \in 1..Len(wizard.segments) |->
                                IF i \in marked THEN newID ELSE wizard.segments[i]]
               IN  wizard' = [deleteEmpty(added, moved, TRUE) EXCEPT !.op = "create"]
    /\ UNCHANGED <<pc, err, run, species, method, CNNDicts, args, cnt, filename,
                   segments, sampleRate, datalength, hasSp, hasWs, disk, log, loc,
                   post, hist>>

\* deleteSelectedSegs: the marked buttons and their segments are deleted
deleteSelectedSegs ==
    /\ wizard.err = ""
    /\ \E marked \in SUBSET (1..Len(wizard.segments)) :
          IF marked = {}
          THEN wizard' = [wizard EXCEPT !.op = "none"]
          ELSE LET kept == SelectSeq([i \in 1..Len(wizard.segments) |->
                                         <<i, wizard.segments[i]>>],
                                     LAMBDA x : x[1] \notin marked)
                   left == [i \in 1..Len(kept) |-> kept[i][2]]
               IN  wizard' = [deleteEmpty(wizard, left, FALSE) EXCEPT !.op = "delete"]
    /\ UNCHANGED <<pc, err, run, species, method, CNNDicts, args, cnt, filename,
                   segments, sampleRate, datalength, hasSp, hasWs, disk, log, loc,
                   post, hist>>

\* the page after initializePage; no batch run is going on
WizardInit ==
    /\ InitWith(CLIRun("recordings", "Kiwi", <<>>))
    /\ wizard \in Pages

WizardNext ==
    \/ merge
    \/ moveSelectedSegs
    \/ createNewcluster
    \/ deleteSelectedSegs

WizardSpec == WizardInit /\ [][WizardNext]_vars

-----------------------------------------------------------------------------
(* Properties *)

filtered == args.speciesStr /= "" /\ ~anysound

Pos(order, stage) == CHOOSE k \in 1..Len(order) : order[k] = stage

\* the stages of a log are stages of `order` and ran in that order, each once
InOrder(stagelog, order) ==
    /\ \A i \in 1..Len(stagelog) : stagelog[i] \in Range(order)
    /\ \A i, j \in 1..Len(stagelog) : i < j => Pos(order, stagelog[i]) < Pos(order, stagelog[j])

\* C1 as stated: in filtered mode the stages that run for a subfilter on a
\* page run in the order CNN refine, fundamental-frequency check, gap join,
\* short delete, frequency tagging, offset correction.  (Frequency tagging is
\* done by makeSegments.)
C1_OrderAsStated ==
    filtered => InOrder(hist.stages,
                        <<"CNN", "fundamentalFrq", "joinGaps", "deleteShort", "makeSegments", "offset">>)

\* C1 amended: in filtered mode the stages that run for a subfilter on a page
\* run in the order CNN refine, fundamental-frequency check, gap join, short
\* delete, offset correction, frequency tagging; no stage runs before a stage
\* listed earlier, and none runs twice.
C1_StageOrder ==
    filtered => InOrder(hist.stages,
                        <<"CNN", "fundamentalFrq", "joinGaps", "deleteShort", "offset", "makeSegments">>)

\* all six stages ran for one subfilter on a page that does not start at 0
C1_Witness ==
    /\ filtered
    /\ loc.start /= 0
    /\ hist.stages = <<"CNN", "fundamentalFrq", "joinGaps", "deleteShort", "offset", "makeSegments">>

CeilDiv(N, P) == IF N % P = 0 THEN N \div P ELSE N \div P + 1

\* the page loop of detectFile has taken its last page
pagesDone == pc = "page" /\ loc.page >= loc.numPages

\* C2: for N >= 1 samples and page length P > 0 the pages iterated by
\* detectFile are [k*P, min((k+1)*P, N)) for k = 0 .. ceil(N/P)-1, in
\* ascending order, disjoint, without gap, covering exactly [0, N), and only
\* the last page may be shorter than P.
C2_Pages ==
    (datalength >= 1 /\ loc.samplesInPage > 0 /\ pc /= "detectFile") =>
        LET P == loc.samplesInPage
            N == datalength
            pages == hist.pages
        IN /\ Len(pages) <= CeilDiv(N, P)
           /\ \A k \in 1..Len(pages) :
                 /\ pages[k] = <<(k - 1) * P, Min(k * P, N)>>
                 /\ pages[k][1] < pages[k][2]
           /\ \A k \in 1..(Len(pages) - 1) :
                 /\ pages[k][2] = pages[k + 1][1]
                 /\ pages[k][2] - pages[k][1] = P
           /\ pagesDone => /\ Len(pages) = CeilDiv(N, P)
                           /\ pages[1][1] = 0
                           /\ pages[Len(pages)][2] = N

\* a recording of several pages, the last one shorter, has been paged
C2_Witness ==
    /\ pagesDone
    /\ datalength >= 1
    /\ Len(hist.pages) >= 3
    /\ hist.pages[Len(hist.pages)][2] - hist.pages[Len(hist.pages)][1] < loc.samplesInPage

\* some active subfilter has a window below 0.05 s
smallWindow ==
    \E i \in 1..Len(args.filters) :
        \E subf \in Range(FilterDicts[args.filters[i]].Filters) : subf.win /= -1 /\ subf.win < 50

\* C3: the page length is 300*fs when fs <= 4000, otherwise 4500*0.05*fs when
\* the method is wavelet-based and the smallest sub-window of the active
\* subfilters is below 0.05 s, otherwise 900*16000; fs = 2000 with
\* N = 1,000,000 gives pages of 600,000 samples and 2 pages, the last shorter.
C3_PageLength ==
    (loc.samplesInPage /= 0 /\ pc /= "detectFile") =>
        /\ loc.samplesInPage =
              IF sampleRate <= 4000 THEN 300 * sampleRate
              ELSE IF method = "Wavelets" /\ smallWindow THEN (4500 * 5 * sampleRate) \div 100
              ELSE 900 * 16000
        /\ (sampleRate = 2000 /\ datalength = 1000000) =>
              /\ loc.samplesInPage = 600000
              /\ loc.numPages = 2
              /\ pagesDone => hist.pages = << <<0, 600000>>, <<600000, 1000000>> >>

\* the recording of the example has been paged
C3_Witness ==
    /\ sampleRate = 2000
    /\ datalength = 1000000
    /\ pagesDone
    /\ Len(hist.pages) = 2

Last(q) == q[Len(q)]

\* the shift of a page that starts at sample `start`
Shift(start) == IF start /= 0 THEN Seconds(start, sampleRate) ELSE 0

\* candidates a and b differ by the shift d in start and end, and in nothing else
Shifted(a, b, d) == a.t0 = b.t0 + d /\ a.t1 = b.t1 + d /\ a.t1 - a.t0 = b.t1 - b.t0

\* C4: when post-processing of a page is over, every surviving candidate's
\* start and end are its page-local start and end plus start/sampleRate of
\* the page, added once (the duration is unchanged); on the page that starts
\* at sample 0 they are the page-local times.  The segments put on the list
\* carry these times.
C4_Offset ==
    /\ pc = "makeSegments" =>
          /\ Len(post) = Len(hist.pageLocal)
          /\ \A i \in 1..Len(post) :
                /\ Shifted(post[i], hist.pageLocal[i], Shift(loc.start))
                /\ post[i].cert = hist.pageLocal[i].cert
    /\ (/\ pc \in {"page", "postProcFull", "dispatch"}
        /\ hist.batches /= <<>>
        /\ Last(hist.batches).file = filename
        /\ Last(hist.batches).page = loc.page) =>
          LET b == Last(hist.batches)
          IN /\ b.n = Len(hist.pageLocal)
             /\ \A i \in 1..b.n :
                   Shifted(segments.segs[b.first + i - 1], hist.pageLocal[i], Shift(b.start))

\* candidates of a page that does not start at sample 0 are ready for the list
C4_Witness ==
    /\ pc = "makeSegments"
    /\ loc.start /= 0
    /\ Len(post) >= 1

\* C5: in labeled mode makeSegments appends one Segment per candidate, in
\* candidate order, at the end of the list; each has the candidate's
\* interval, the frequency range stamped for the subfilter and the one label
\* {species of the filter, certainty of the candidate, recogniser name,
\* calltype of the subfilter}; the segments already in the list and the
\* metadata stay as they are.
C5_Append ==
    [][(pc = "makeSegments" /\ filtered) =>
          /\ segments'.segs = segments.segs \o
                [i \in 1..Len(post) |->
                    [t0 |-> post[i].t0, t1 |-> post[i].t1,
                     f0 |-> subfilter.FreqRange[1],
                     f1 |-> IF subfilter.FreqRange[2] <= sampleRate \div 2
                            THEN subfilter.FreqRange[2] ELSE sampleRate \div 2,
                     labels |-> << [species |-> FilterDicts[species[loc.speciesix]].species,
                                    certainty |-> post[i].cert,
                                    filter |-> species[loc.speciesix],
                                    calltype |-> subfilter.calltype] >>]]
          /\ segments'.metadata = segments.metadata]_vars

\* candidates have been appended behind segments that were already there
C5_Witness ==
    /\ filtered
    /\ pc \in {"page", "postProcFull", "dispatch"}
    /\ hist.batches /= <<>>
    /\ Last(hist.batches).n >= 1
    /\ Last(hist.batches).first > 1
    /\ Len(segments.segs) = Last(hist.batches).first + Last(hist.batches).n - 1

\* the species that the selected recognisers detect
redetected == {FilterDicts[n].species : n \in Range(species) \cap DOMAIN FilterDicts}

\* loadFile has just reloaded an existing sidecar
reloaded ==
    /\ pc = "detectFile"
    /\ species /= <<"Any sound">>
    /\ disk[filename].exists
    /\ method \notin {"Click", "Bats"}

KeepOthers(seg) == [seg EXCEPT !.labels = SelectSeq(@, LAMBDA l : l.species \notin redetected)]

\* C6: after the reload of a sidecar for a filtered run the list is the saved
\* list with every label of a re-detected species removed and every segment
\* left without a label removed; all other segments and labels are unchanged
\* and in the same order; no loaded segment has a label of a re-detected
\* species and none is label-less.
C6_Wipe ==
    reloaded =>
        LET old == disk[filename].segs
        IN /\ segments.segs = SelectSeq([i \in 1..Len(old) |-> KeepOthers(old[i])],
                                        LAMBDA seg : seg.labels /= <<>>)
           /\ segments.metadata = disk[filename].metadata
           /\ \A i \in 1..Len(segments.segs) :
                 /\ segments.segs[i].labels /= <<>>
                 /\ \A k \in 1..Len(segments.segs[i].labels) :
                       segments.segs[i].labels[k].species \notin redetected

\* of two saved segments one was removed and the other lost one of two labels
C6_Witness ==
    /\ reloaded
    /\ Len(disk[filename].segs) = 2
    /\ Len(segments.segs) = 1
    /\ Len(segments.segs[1].labels) = 1
    /\ \E i \in 1..2 : /\ disk[filename].segs[i].t0 = segments.segs[1].t0
                       /\ Len(disk[filename].segs[i].labels) = 2

\* seconds since midnight of the clock time HHMMSS
ClockSeconds(stamp) ==
    LET hh == stamp \div 10000
        mm == (stamp % 10000) \div 100
        ss == stamp % 100
    IN hh * 3600 + mm * 60 + ss

\* C7: mainloop takes a file as in-window iff its name has no timestamp, or
\* ws = we, or ws < we and ws <= t <= we, or ws > we and (t >= ws or t <= we);
\* window (28800, 61200) accepts 08:30:00 and rejects 18:00:00, window
\* (61200, 28800) accepts 23:00:00.
C7_InWindow ==
    \A k \in 1..Len(hist.decided) :
        LET f == args.allwavs[k]
            t == ClockSeconds(f.stamp)
            ws == args.timeWindow_s
            we == args.timeWindow_e
        IN /\ hist.decided[k] <=> \/ f.stamp = -1
                                  \/ ws = we
                                  \/ ws < we /\ ws <= t /\ t <= we
                                  \/ ws > we /\ (t >= ws \/ t <= we)
           /\ (ws = 28800 /\ we = 61200 /\ f.stamp = 83000) => hist.decided[k]
           /\ (ws = 28800 /\ we = 61200 /\ f.stamp = 180000) => ~hist.decided[k]
           /\ (ws = 61200 /\ we = 28800 /\ f.stamp = 230000) => hist.decided[k]

\* a recording of 23:00:00 was accepted by the window 17:00 to 8:00
C7_Witness ==
    /\ args.timeWindow_s = 61200
    /\ args.timeWindow_e = 28800
    /\ \E k \in 1..Len(hist.decided) : args.allwavs[k].stamp = 230000 /\ hist.decided[k]

\* C8: a file outside the time window is recorded in the skip log, is not
\* loaded, raises no error, and the files after it are processed.
C8_SkipLogged ==
    \A k \in 1..Len(hist.decided) :
        ~hist.decided[k] =>
            /\ err = ""
            /\ log /= "unset"
            /\ k \in Range(log)
            /\ k \notin Range(hist.loaded)
            /\ pc = "done" => \A j \in 1..Len(args.allwavs) :
                                 (j \in Range(hist.loaded) <=> hist.decided[j])

\* the active filters whose method is present and neither "wv" nor "chp"
badFilters ==
    {args.filters[i] : i \in {j \in 1..Len(args.filters) :
                                FilterDicts[args.filters[j]].method \notin {"", "wv", "chp"}}}

\* C9: with an active filter of an unsupported method no file that detection
\* starts on completes: control never returns to the file loop, processing
\* stops nowhere but in an error, and no segment labelled with that filter is
\* on the segment list.
C9_BadMethodFatal ==
    badFilters /= {} =>
        /\ hist.completed = {}
        /\ hist.loaded /= <<>> => pc \notin {"mainloop", "file", "done"}
        /\ (hist.loaded /= <<>> /\ pc /= "error") => ENABLED Next
        /\ \A i \in 1..Len(segments.segs) :
              \A k \in 1..Len(segments.segs[i].labels) :
                  segments.segs[i].labels[k].filter \notin badFilters

\* the method check stopped a file after segments of another filter were added
C9_Witness ==
    /\ badFilters /= {}
    /\ pc = "error"
    /\ err = "Exception"
    /\ segments.segs /= <<>>

\* C10: a file whose detection completed has, once mainloop has moved on or
\* returned, its segment list with Operator "Auto", Reviewer "" and Duration
\* in its sidecar file.
C10_SavedBeforeNext ==
    \A f \in hist.completed :
        (cnt > f \/ pc = "done") =>
            /\ f \in hist.saved
            /\ disk[f].exists
            /\ disk[f].metadata.Operator = "Auto"
            /\ disk[f].metadata.Reviewer = ""
            /\ disk[f].metadata.Duration = Duration(args.allwavs[f].N, args.allwavs[f].fs)

\* the batches makeSegments has put on the list of the current file, and the
\* positions on the list of the segments of a batch
fileBatches == {k \in 1..Len(hist.batches) : hist.batches[k].file = filename}
batchIx(k) == hist.batches[k].first .. (hist.batches[k].first + hist.batches[k].n - 1)
appendedIx == UNION {batchIx(k) : k \in fileBatches}

\* C11: every segment the pipeline has appended to the segment list has
\* 0 <= timeStart < timeEnd and 0 <= freqLow <= freqHigh <= fs/2, fs being the
\* sample rate of the file being processed.
C11_SegmentRanges ==
    \A i \in appendedIx :
        /\ i <= Len(segments.segs)
        /\ 0 <= segments.segs[i].t0
        /\ segments.segs[i].t0 < segments.segs[i].t1
        /\ 0 <= segments.segs[i].f0
        /\ segments.segs[i].f0 <= segments.segs[i].f1
        /\ 2 * segments.segs[i].f1 <= sampleRate

\* the subfilter whose candidates batch k holds
batchSubfilter(k) ==
    FilterDicts[args.filters[hist.batches[k].speciesix]].Filters[hist.batches[k].filtix]

\* C12 as stated: every segment accumulated in labelled mode has freqLow = the
\* low edge of its subfilter's FreqRange and freqHigh = min(high edge,
\* sampleRate/2), the exact half of the sample rate (compared doubled).
C12_ExactHalf ==
    filtered =>
        \A k \in fileBatches : \A i \in batchIx(k) :
            /\ segments.segs[i].f0 = batchSubfilter(k).FreqRange[1]
            /\ 2 * segments.segs[i].f1 = Min(2 * batchSubfilter(k).FreqRange[2], sampleRate)

\* C12: every segment accumulated in labelled mode has freqLow = the low edge
\* of its subfilter's FreqRange and freqHigh = min(high edge, sampleRate div 2),
\* half the sample rate rounded down to a whole number.
C12_FloorHalf ==
    filtered =>
        \A k \in fileBatches : \A i \in batchIx(k) :
            /\ segments.segs[i].f0 = batchSubfilter(k).FreqRange[1]
            /\ segments.segs[i].f1 = Min(batchSubfilter(k).FreqRange[2], sampleRate \div 2)

\* a segment of an odd-rate recording was clipped to the rounded-down half
C12_Witness ==
    /\ filtered
    /\ sampleRate % 2 = 1
    /\ \E k \in fileBatches : \E i \in batchIx(k) :
          /\ 2 * batchSubfilter(k).FreqRange[2] > sampleRate
          /\ segments.segs[i].f1 = sampleRate \div 2

\* post-processing of a subfilter on a page is over: its last stage has put
\* the candidates on the list as the last batch
batchDone == hist.stages /= <<>> /\ Last(hist.stages) = "makeSegments" /\ hist.batches /= <<>>

\* the filter whose candidates batch k holds
batchFilter(k) == FilterDicts[args.filters[hist.batches[k].speciesix]]

ran(stage) == stage \in Range(hist.stages)

\* C13: for a subfilter whose post-processing is over, the fundamental-
\* frequency check has run iff the method is "wv" or absent and the subfilter
\* has a true F0 flag and an F0Range; the gap join has run iff the method is
\* "wv" or absent, and it joined with maxGap = TimeRange[3]; for a "chp"
\* filter neither has run.
C13_WaveletOnlyStages ==
    /\ (filtered /\ batchDone) =>
          LET m == batchFilter(Len(hist.batches)).method
              sub == batchSubfilter(Len(hist.batches))
          IN /\ ran("fundamentalFrq") <=>
                    (m \in {"", "wv"} /\ sub.hasF0 /\ sub.F0 /\ sub.hasF0Range)
             /\ ran("joinGaps") <=> m \in {"", "wv"}
             /\ m = "chp" => ~ran("fundamentalFrq") /\ ~ran("joinGaps")
    /\ (filtered /\ hist.stages /= <<>> /\ Last(hist.stages) = "joinGaps") =>
          post = joinGaps(hist.pre, subfilter.TimeRange[4])

\* a changepoint subfilter with a true F0 flag was post-processed without the
\* two stages, and a wavelet subfilter with them
C13_Witness ==
    /\ filtered
    /\ batchDone
    /\ batchFilter(Len(hist.batches)).method = "chp"
    /\ batchSubfilter(Len(hist.batches)).F0
    /\ hist.stages = <<"deleteShort", "makeSegments">>
    /\ \E k \in 1..Len(hist.batches) : batchFilter(k).method \in {"", "wv"}

\* length of a candidate in milliseconds
Length(c) == c.t1 - c.t0

\* the candidates before and after the stage that ran last
justRan(stage) == hist.stages /= <<>> /\ Last(hist.stages) = stage

\* C14: in filtered mode the short-delete stage has run for a post-processed
\* subfilter iff its minLen = TimeRange[0] is > 0, whatever the method; right
\* after the stage the candidates are those of before the stage, in the same
\* order, without the ones shorter than minLen: one of 300 ms is gone and one
\* of 600 ms is kept when minLen is 500 ms.
C14_ShortDelete ==
    /\ (filtered /\ batchDone) =>
          (ran("deleteShort") <=> batchSubfilter(Len(hist.batches)).TimeRange[1] > 0)
    /\ (filtered /\ justRan("deleteShort")) =>
          LET minLen == subfilter.TimeRange[1]
              kept == {i \in 1..Len(hist.pre) : Length(hist.pre[i]) >= minLen}
          IN /\ Len(post) = Cardinality(kept)
             /\ \A i \in kept : \E j \in 1..Len(post) :
                   /\ post[j] = hist.pre[i]
                   /\ j = Cardinality({h \in kept : h <= i})
             /\ \A i \in 1..Len(hist.pre) :
                   /\ (minLen = 500 /\ Length(hist.pre[i]) = 300) => hist.pre[i] \notin Range(post)
                   /\ (minLen = 500 /\ Length(hist.pre[i]) = 600) => hist.pre[i] \in Range(post)

\* under a changepoint filter with minLen 500 ms the stage dropped a candidate
\* of 300 ms and kept the longer one before it
C14_Witness ==
    /\ filtered
    /\ justRan("deleteShort")
    /\ spInfo.method = "chp"
    /\ subfilter.TimeRange[1] = 500
    /\ Len(hist.pre) = 2
    /\ Length(hist.pre[2]) = 300
    /\ post = <<hist.pre[1]>>

\* the filter declares a CNN block and its model is in the loaded dictionary
cnnAvailable(filt) == filt.CNN /= "" /\ filt.CNN \in CNNDicts

\* C15: the CNN stage has run for a post-processed subfilter iff its filter
\* declares a CNN whose model is in the loaded dictionary; the stage is
\* entered only with such a model, a missing model raises no lookup error,
\* and without the stage the later stages have run and the candidates of the
\* batch are on the list with the certainty they started with.
C15_CNNGate ==
    /\ (filtered /\ batchDone) =>
          /\ ran("CNN") <=> cnnAvailable(batchFilter(Len(hist.batches)))
          /\ ~ran("CNN") =>
                \A i \in batchIx(Len(hist.batches)) :
                    hist.batches[Len(hist.batches)].file = filename =>
                        segments.segs[i].labels[1].certainty = 50
    /\ (filtered /\ pc = "CNN") => cnnAvailable(spInfo)
    /\ (filtered /\ pc = "postProcFull") => ENABLED postProcFull
    /\ (filtered /\ hist.loaded /= <<>>) => err /= "KeyError"

\* a filter that declares a CNN whose model did not load was post-processed
\* to the end, without the CNN stage, and put a segment on the list
C15_Witness ==
    /\ filtered
    /\ batchDone
    /\ batchFilter(Len(hist.batches)).CNN /= ""
    /\ batchFilter(Len(hist.batches)).CNN \notin CNNDicts
    /\ hist.stages = <<"joinGaps", "deleteShort", "makeSegments">>
    /\ hist.batches[Len(hist.batches)].n > 0
    /\ err = ""
    /\ \E k \in 1..Len(hist.detected) : hist.detected[k][4] = "waveletSegment"

\* C16: when the recogniser is "Any sound", detect runs in any-sound mode: no
\* filter is looked up (no KeyError, mainloop is entered without filters),
\* every detector call is median clipping, and every appended segment has
\* the frequency range (0,0) and the single label "Don't Know" with
\* certainty 0, no filter and no calltype.
C16_AnySoundDetect ==
    (run.entry = "detect" /\ "Any sound" \in Range(species) /\ pc /= "idle") =>
        /\ err /= "KeyError"
        /\ args.filtersNone
        /\ args.speciesStr = "Any sound"
        /\ \A k \in 1..Len(hist.detected) : hist.detected[k][4] = "medianClip"
        /\ \A i \in appendedIx :
              /\ segments.segs[i].f0 = 0
              /\ segments.segs[i].f1 = 0
              /\ segments.segs[i].labels = <<Label("Don't Know", 0, "None", "None")>>

\* control is inside the page loop of detectFile
inPages == pc \in {"page", "medianClip", "readBatch", "dispatch", "postProcFull"} \cup Range(Stages)

\* the k-th page of the current file is shorter than two seconds and the
\* method is neither "Click" nor "Bats"
short(k) ==
    /\ hist.pages[k][2] - hist.pages[k][1] < 2 * sampleRate
    /\ method \notin {"Click", "Bats"}

\* a detector was called on the k-th page of the current file
detectedOn(k) ==
    \E d \in 1..Len(hist.detected) :
        hist.detected[d][1] = filename /\ hist.detected[d][2] = k

\* C17: a page shorter than 2 seconds, the method being neither "Click" nor
\* "Bats", has no detector call and no batch of post-processed candidates,
\* and is never the page being processed; every other page that the loop has
\* passed has had its detector call, and the loop goes on after a skip.
C17_SkipShortPage ==
    inPages =>
        /\ \A k \in 1..Len(hist.pages) :
              IF short(k)
              THEN /\ ~detectedOn(k)
                   /\ \A b \in fileBatches : hist.batches[b].page /= k
                   /\ k = loc.page => pc = "page"
              ELSE detectedOn(k) \/ (k = loc.page /\ pc \in {"medianClip", "readBatch", "dispatch"})
        /\ pc = "page" => ENABLED nextPage

\* after a first page with a segment the last page, of one second, was skipped
C17_Witness ==
    /\ pagesDone
    /\ Len(hist.pages) = 2
    /\ short(2)
    /\ hist.pages[2][2] - hist.pages[2][1] = sampleRate
    /\ ~short(1)
    /\ detectedOn(1)
    /\ ~detectedOn(2)
    /\ segments.segs /= <<>>
    /\ fileBatches /= {}

\* the span in milliseconds of the page that batch k comes from
batchSpan(k) ==
    <<Seconds(hist.pages[hist.batches[k].page][1], sampleRate),
      Seconds(hist.pages[hist.batches[k].page][2], sampleRate)>>

\* two segments of the list, the first ending on one page and the second
\* starting on a later page, closer to each other than maxGap
closeAcrossPages(i, j, maxGap) ==
    \E k1, k2 \in fileBatches :
        /\ hist.batches[k1].page < hist.batches[k2].page
        /\ hist.batches[k1].speciesix = hist.batches[k2].speciesix
        /\ hist.batches[k1].filtix = hist.batches[k2].filtix
        /\ i \in batchIx(k1)
        /\ j \in batchIx(k2)
        /\ segments.segs[j].t0 - segments.segs[i].t1 < maxGap

\* C18: every segment on the list that a batch has put there is a segment of
\* its own, inside the span [start/sampleRate, end/sampleRate] of the one page
\* the batch comes from: no segment reaches into another page, however close
\* the candidates of two pages are.
C18_PageLocal ==
    \A k \in fileBatches : \A i \in batchIx(k) :
        /\ i <= Len(segments.segs)
        /\ batchSpan(k)[1] <= segments.segs[i].t0
        /\ segments.segs[i].t1 <= batchSpan(k)[2]
        /\ \A k2 \in fileBatches : k2 /= k => i \notin batchIx(k2)

\* a wavelet subfilter with gap joining has a segment that ends with the first
\* page and one that starts with the second, both on the list
C18_Witness ==
    /\ filtered
    /\ \E i, j \in 1..Len(segments.segs) :
          /\ closeAcrossPages(i, j, FilterDicts[args.filters[1]].Filters[1].TimeRange[4])
          /\ segments.segs[i].t1 = segments.segs[j].t0
    /\ FilterDicts[args.filters[1]].method = "wv"
    /\ pagesDone

\* position of batch k in the nesting of the loops of detectFile
loopPos(k) == <<hist.batches[k].page, hist.batches[k].speciesix, hist.batches[k].filtix>>

LexLess(a, b) ==
    \/ a[1] < b[1]
    \/ a[1] = b[1] /\ a[2] < b[2]
    \/ a[1] = b[1] /\ a[2] = b[2] /\ a[3] < b[3]

\* C19: within one file the pages are iterated by ascending start sample, and
\* the batches are appended in strictly ascending (page, filter, subfilter)
\* order, each behind the one before it on the list, with a page-start offset
\* that never decreases.
C19_LoopOrder ==
    /\ inPages =>
          \A k \in 1..(Len(hist.pages) - 1) : hist.pages[k][1] < hist.pages[k + 1][1]
    /\ \A k1, k2 \in fileBatches :
          k1 < k2 =>
              /\ LexLess(loopPos(k1), loopPos(k2))
              /\ hist.batches[k1].start <= hist.batches[k2].start
              /\ hist.batches[k1].first + hist.batches[k1].n <= hist.batches[k2].first
              /\ hist.batches[k1].page < hist.batches[k2].page =>
                    hist.batches[k1].start < hist.batches[k2].start

\* two pages with two filters each, the first filter with two subfilters: the
\* batches of the second page follow those of the first on the list
C19_Witness ==
    /\ filtered
    /\ Len(args.filters) = 2
    /\ \E k1, k2, k3 \in fileBatches :
          /\ k1 < k2 /\ k2 < k3
          /\ hist.batches[k1].page < hist.batches[k3].page
          /\ hist.batches[k1].filtix < hist.batches[k2].filtix
          /\ hist.batches[k2].speciesix < hist.batches[k3].speciesix
          /\ hist.batches[k1].n > 0
          /\ hist.batches[k3].n > 0

\* the sample rates of the selected recognisers
selectedRates == {FilterDicts[species[i]].SampleRate : i \in 1..Len(species)}

\* C20: when the selected filters have more than one distinct SampleRate,
\* detect ends in a ValueError, and no CNN model has been loaded, no audio
\* file read, no detector run and no segment produced.
C20_MixedRatesRejected ==
    (/\ run.entry = "detect"
     /\ Range(species) \subseteq DOMAIN FilterDicts
     /\ Cardinality(selectedRates) > 1) =>
        /\ pc \in {"idle", "error"}
        /\ pc = "error" => err = "ValueError"
        /\ ~hist.cnnLoaded
        /\ CNNDicts = {}
        /\ hist.loaded = <<>>
        /\ sampleRate = 0
        /\ hist.detected = <<>>
        /\ hist.batches = <<>>
        /\ segments.segs = <<>>

\* detect has rejected a selection of a 16000 Hz and an 8000 Hz recogniser
C20_Witness ==
    /\ run.entry = "detect"
    /\ Range(species) \subseteq DOMAIN FilterDicts
    /\ selectedRates = {16000, 8000}
    /\ pc = "error"
    /\ err = "ValueError"

\* the metadata of a finalized list of a file of N samples at rate fs
Finalized(N, fs) ==
    [Operator |-> "Auto", Reviewer |-> "", Duration |-> Seconds(N, fs),
     noiseLevel |-> "None", noiseTypes |-> "[]"]

\* C21: once saveAnnotation has finalized the list of the current file, with
\* a method other than intermittent sampling, the metadata of the list and of
\* the sidecar written are Duration = datalength / sampleRate, Operator
\* "Auto", Reviewer "", noiseLevel None, noiseTypes [], whatever was loaded.
C21_BatchMetadata ==
    (pc = "done" /\ filename \in hist.saved /\ method /= "Intermittent sampling") =>
        /\ segments.metadata = Finalized(datalength, sampleRate)
        /\ disk[filename].exists
        /\ disk[filename].metadata = Finalized(datalength, sampleRate)
        /\ disk[filename].segs = segments.segs

\* the list reloaded from a sidecar of a manual session was finalized
C21_Witness ==
    /\ pc = "done"
    /\ filename \in hist.saved
    /\ method = "Wavelets"
    /\ run.allwavs[filename].hasData
    /\ species /= <<"Any sound">>
    /\ OldMetadata(run.allwavs[filename]).Operator = "Human"
    /\ segments.metadata.Operator = "Auto"
    /\ segments.segs /= <<>>

\* C22: a run of the command line with -d and -r has the recogniser of -r
\* as the active filter of the batch processor, and has, when it ends, run
\* detection to the end on every file of the directory.
C22_CommandLine ==
    run.entry = "cli" =>
        /\ species = run.species
        /\ pc = "done" => \A i \in 1..Len(run.allwavs) : i \in hist.completed

\* the calls logged for the pages so far
isRead(e) == e.kind = "readBatch"
isDetector(e) == e.kind \in {"waveletSegment", "waveletSegmentChp"}
isPost(e) == e.kind = "postProcFull"
samePage(a, b) == a.file = b.file /\ a.page = b.page

\* the page of call e is behind the loop, which goes on without error
pageOver(e) ==
    /\ pc /= "error"
    /\ \/ e.file /= filename
       \/ e.page < loc.page
       \/ pc \in {"page", "mainloop", "file", "done"}

\* C23: in filtered mode every page is read into the wavelet segmenter at
\* most once; a detector call for a page comes after the read of that page,
\* with no other read in between, and is the only call of that filter for the
\* page; post-processing of a subfilter uses the result of the latest
\* detector call, which is the call of its filter on its page; and for a page
\* that is over every filter had its detector call and every subfilter its
\* post-processing.
C23_OncePerPage ==
    filtered =>
        \A j \in 1..Len(hist.calls) :
            LET e == hist.calls[j]
            IN /\ isRead(e) =>
                     /\ \A i \in 1..(j - 1) : ~(isRead(hist.calls[i]) /\ samePage(hist.calls[i], e))
                     /\ pageOver(e) =>
                           \A six \in 1..Len(args.filters) :
                               /\ \E d \in (j + 1)..Len(hist.calls) :
                                     /\ isDetector(hist.calls[d])
                                     /\ samePage(hist.calls[d], e)
                                     /\ hist.calls[d].speciesix = six
                               /\ \A fx \in 1..Len(FilterDicts[args.filters[six]].Filters) :
                                     \E q \in (j + 1)..Len(hist.calls) :
                                         /\ isPost(hist.calls[q])
                                         /\ samePage(hist.calls[q], e)
                                         /\ hist.calls[q].speciesix = six
                                         /\ hist.calls[q].filtix = fx
               /\ isDetector(e) =>
                     /\ \E i \in 1..(j - 1) :
                           /\ isRead(hist.calls[i])
                           /\ samePage(hist.calls[i], e)
                           /\ \A h \in (i + 1)..(j - 1) : ~isRead(hist.calls[h])
                     /\ \A i \in 1..(j - 1) :
                           ~(/\ isDetector(hist.calls[i])
                             /\ samePage(hist.calls[i], e)
                             /\ hist.calls[i].speciesix = e.speciesix)
               /\ isPost(e) =>
                     /\ \E i \in 1..(j - 1) :
                           /\ isDetector(hist.calls[i])
                           /\ samePage(hist.calls[i], e)
                           /\ hist.calls[i].speciesix = e.speciesix
                           /\ \A h \in (i + 1)..(j - 1) : ~isDetector(hist.calls[h])
                     /\ \A i \in 1..(j - 1) :
                           ~(/\ isPost(hist.calls[i])
                             /\ samePage(hist.calls[i], e)
                             /\ hist.calls[i].speciesix = e.speciesix
                             /\ hist.calls[i].filtix = e.filtix)

\* two pages of a recording were processed with two filters, one of them with
\* two subfilters
C23_Witness ==
    /\ filtered
    /\ pagesDone
    /\ Len(args.filters) = 2
    /\ Cardinality({j \in 1..Len(hist.calls) : isRead(hist.calls[j])}) = 2
    /\ Cardinality({j \in 1..Len(hist.calls) : isDetector(hist.calls[j])}) = 4
    /\ Cardinality({j \in 1..Len(hist.calls) : isPost(hist.calls[j])}) = 6

\* C24: a file that mainloop has started on and that has not completed is
\* the last one started, in progress or stopped by an error; an error ends the
\* run (no step follows it, so no later page and no later file is processed);
\* and a completed file has had all its pages iterated in ascending order and
\* every page that is not skipped processed.
C24_AllOrAbort ==
    /\ err /= "" <=> pc = "error"
    /\ pc = "error" => ~ENABLED Next
    /\ \A i \in 1..Len(hist.loaded) :
          hist.loaded[i] \notin hist.completed =>
              /\ i = Len(hist.loaded)
              /\ hist.loaded[i] = cnt
              /\ pc = "error" \/ pc = "detectFile" \/ inPages
    /\ filename \in hist.completed =>
          /\ Len(hist.pages) = loc.numPages
          /\ \A k \in 1..Len(hist.pages) :
                /\ ~short(k) => detectedOn(k)
                /\ k > 1 => hist.pages[k - 1][1] < hist.pages[k][1]

\* an error on the first page of the first file: the second page and the
\* second file are left
C24_Witness ==
    /\ pc = "error"
    /\ err = "Exception"
    /\ segments.segs /= <<>>
    /\ Len(hist.pages) = 1
    /\ loc.numPages = 2
    /\ cnt = 1
    /\ Len(args.allwavs) = 2
    /\ hist.completed = {}

\* the pieces of the log `pieces` that lie inside the candidate c
inside(pieces, c) == {j \in 1..Len(pieces) : c.t0 <= pieces[j].t0 /\ pieces[j].t1 <= c.t1}

\* C25: the long split has run for a post-processed page iff the mode is any
\* sound, there after gap join and short delete and before the offset; right
\* after it every candidate of before is covered by consecutive pieces that
\* start with it, end with it, touch without overlap and are each at most 10
\* seconds long, as few as possible (a candidate of at most 10 seconds is one
\* piece), and there is no other piece; [0,25] gives [0,10],[10,20],[20,25].
C25_SplitLong ==
    /\ (batchDone /\ args.speciesStr /= "") =>
          /\ ran("splitLong") <=> anysound
          /\ ran("splitLong") =>
                /\ ran("joinGaps") /\ ran("deleteShort")
                /\ Pos(hist.stages, "joinGaps") < Pos(hist.stages, "splitLong")
                /\ Pos(hist.stages, "deleteShort") < Pos(hist.stages, "splitLong")
                /\ ran("offset") => Pos(hist.stages, "splitLong") < Pos(hist.stages, "offset")
    /\ pc = "splitLong" => anysound
    /\ justRan("splitLong") =>
          /\ \A j \in 1..Len(post) :
                /\ post[j].t0 < post[j].t1
                /\ post[j].t1 - post[j].t0 <= 10000
                /\ \E i \in 1..Len(hist.pre) : j \in inside(post, hist.pre[i])
          /\ \A i \in 1..Len(hist.pre) :
                LET c == hist.pre[i]
                    P == inside(post, c)
                IN /\ P /= {}
                   /\ Cardinality(P) = CeilDiv(c.t1 - c.t0, 10000)
                   /\ \E a, b \in P :
                         /\ P = a..b
                         /\ post[a].t0 = c.t0
                         /\ post[b].t1 = c.t1
                         /\ \A j \in a..(b - 1) : post[j].t1 = post[j + 1].t0
                   /\ (c.t0 = 0 /\ c.t1 = 25000) =>
                         \E a \in P :
                             /\ <<post[a].t0, post[a].t1>> = <<0, 10000>>
                             /\ <<post[a + 1].t0, post[a + 1].t1>> = <<10000, 20000>>
                             /\ <<post[a + 2].t0, post[a + 2].t1>> = <<20000, 25000>>

\* in any-sound mode a candidate of 25 seconds on the second page was cut in
\* three pieces, before the offset of the page
C25_Witness ==
    /\ anysound
    /\ justRan("splitLong")
    /\ loc.start /= 0
    /\ pc = "offset"
    /\ hist.pre = <<Cand(0, 25000, 0)>>
    /\ Len(post) = 3

\* the interval of a candidate
Iv(c) == <<c.t0, c.t1>>

\* C26: for a wavelet-method subfilter, right after the gap join every
\* candidate of before lies in exactly one interval of after; neighbours less
\* than maxGap = TimeRange[3] apart lie in the same one and the others in
\* different ones, and every interval of after spans from the start of its
\* first to the end of its last candidate ([1.0,2.0] and [2.3,3.0] give
\* [1.0,3.0] with maxGap 0.5 and stay as they are with maxGap 0.2).  The join
\* runs before the short delete, which works on the joined intervals: two
\* candidates shorter than minLen that join to minLen or more are one
\* candidate after the short delete.
C26_JoinBeforeDelete ==
    /\ (filtered /\ justRan("joinGaps")) =>
          LET maxGap == subfilter.TimeRange[4]
              n == Len(hist.pre)
              in(i) == {j \in 1..Len(post) : post[j].t0 <= hist.pre[i].t0 /\ hist.pre[i].t1 <= post[j].t1}
          IN /\ spInfo.method \in {"", "wv"}
             /\ \A i \in 1..n : Cardinality(in(i)) = 1
             /\ \A i \in 1..(n - 1) :
                   (in(i) = in(i + 1)) <=> (hist.pre[i + 1].t0 - hist.pre[i].t1 < maxGap)
             /\ \A j \in 1..Len(post) :
                   /\ \E i \in 1..n : hist.pre[i].t0 = post[j].t0 /\ j \in in(i)
                   /\ \E i \in 1..n : hist.pre[i].t1 = post[j].t1 /\ j \in in(i)
             /\ (n = 2 /\ Iv(hist.pre[1]) = <<1000, 2000>> /\ Iv(hist.pre[2]) = <<2300, 3000>>) =>
                   /\ maxGap = 500 => (Len(post) = 1 /\ Iv(post[1]) = <<1000, 3000>>)
                   /\ maxGap = 200 => post = hist.pre
    /\ (filtered /\ batchDone /\ ran("joinGaps") /\ ran("deleteShort")) =>
          Pos(hist.stages, "joinGaps") < Pos(hist.stages, "deleteShort")
    /\ (filtered /\ hist.stages = <<"joinGaps", "deleteShort">>) =>
          LET raw == loc.thisPageSegs[loc.filtix]
              maxGap == subfilter.TimeRange[4]
              minLen == subfilter.TimeRange[1]
          IN \A i \in 1..(Len(raw) - 1) :
                (/\ raw[i + 1][1] - raw[i][2] < maxGap
                 /\ raw[i + 1][2] - raw[i][1] >= minLen) =>
                    \E j \in 1..Len(post) :
                        post[j].t0 <= raw[i][1] /\ raw[i + 1][2] <= post[j].t1

\* two candidates of 0.3 seconds, 0.1 seconds apart, are one candidate of 0.7
\* seconds after the short delete with minLen 0.4 and maxGap 0.2
C26_Witness ==
    /\ filtered
    /\ hist.stages = <<"joinGaps", "deleteShort">>
    /\ spInfo.method = "wv"
    /\ subfilter.TimeRange[1] = 400
    /\ subfilter.TimeRange[4] = 200
    /\ loc.thisPageSegs[loc.filtix] = << <<1000, 1300>>, <<1400, 1700>> >>
    /\ Len(post) = 1
    /\ Iv(post[1]) = <<1000, 1700>>

\* C27: detectFile returns without raising for a file whose active filters
\* all have a recognised method, also when every page is skipped and in
\* any-sound mode: the page loop, once through, is left for the file loop and
\* not by an error of the return statement.
C27_ReturnsNormally ==
    badFilters = {} =>
        /\ err /= "UnboundLocalError"
        /\ (pagesDone /\ err = "") => (ENABLED nextPage /\ filename \in Range(hist.loaded))

\* the detector that was called for the filter and page of the last batch
batchDetector ==
    LET b == hist.batches[Len(hist.batches)]
        d == CHOOSE j \in 1..Len(hist.calls) :
                 /\ isDetector(hist.calls[j])
                 /\ hist.calls[j].file = b.file
                 /\ hist.calls[j].page = b.page
                 /\ hist.calls[j].speciesix = b.speciesix
    IN hist.calls[d].kind

\* C28: for a post-processed subfilter the gap join has run exactly when the
\* detector called for its filter on the page was waveletSegment, the
\* fundamental-frequency check has run exactly when it was waveletSegment and
\* the subfilter has a true F0 flag and an F0Range, and after
\* waveletSegmentChp neither has run.
C28_DispatchAgreesWithGating ==
    (filtered /\ batchDone) =>
        LET sub == batchSubfilter(Len(hist.batches))
        IN /\ batchDetector \in {"waveletSegment", "waveletSegmentChp"}
           /\ ran("joinGaps") <=> batchDetector = "waveletSegment"
           /\ ran("fundamentalFrq") <=>
                  (batchDetector = "waveletSegment" /\ sub.hasF0 /\ sub.F0 /\ sub.hasF0Range)
           /\ batchDetector = "waveletSegmentChp" => ~ran("joinGaps") /\ ~ran("fundamentalFrq")

\* on one page a filter went through waveletSegment, the fundamental-frequency
\* check and the gap join, and another through waveletSegmentChp and neither
C28_Witness ==
    /\ filtered
    /\ batchDone
    /\ batchDetector = "waveletSegmentChp"
    /\ batchSubfilter(Len(hist.batches)).F0
    /\ ~ran("joinGaps")
    /\ ~ran("fundamentalFrq")
    /\ \E j \in 1..Len(hist.calls) :
          /\ hist.calls[j].kind = "waveletSegment"
          /\ hist.calls[j].page = hist.batches[Len(hist.batches)].page
          /\ hist.calls[j].file = filename

\* C29: when detection starts on a file the segment list holds nothing but
\* segments of the sidecar of that file, as the re-detection wipe leaves
\* them; it is empty when the file has no sidecar or the run is any sound;
\* and whatever was accumulated for the files before is not on it (no batch
\* belongs to the file yet).
C29_OwnList ==
    pc = "detectFile" =>
        /\ (~disk[filename].exists \/ species = <<"Any sound">>) => segments.segs = <<>>
        /\ Len(segments.segs) <= Len(disk[filename].segs)
        /\ \A i \in 1..Len(segments.segs) :
              \E k \in 1..Len(disk[filename].segs) :
                  segments.segs[i] = KeepOthers(disk[filename].segs[k])
        /\ fileBatches = {}
        /\ filename = cnt

\* detection starts on the second file with the segment kept from its sidecar,
\* after a segment was found in the first file
C29_Witness ==
    /\ pc = "detectFile"
    /\ cnt = 2
    /\ \E k \in 1..Len(hist.batches) : hist.batches[k].file = 1 /\ hist.batches[k].n > 0
    /\ disk[2].exists
    /\ Len(segments.segs) = 1
    /\ segments.segs[1].t0 = disk[2].segs[1].t0

\* C30: after any sequence of merge, moveSelectedSegs, createNewcluster and
\* deleteSelectedSegs, with any drop position inside the layout, the keys of
\* the cluster dictionary are exactly 0 .. nclasses-1, the cluster ID of every
\* segment is one of the keys, no listener has raised, and after a move,
\* create or delete no cluster is without a segment.
C30_ClusterKeys ==
    /\ wizard.err = ""
    /\ DOMAIN wizard.clusters = 0..(wizard.nclasses - 1)
    /\ Range(wizard.segments) \subseteq DOMAIN wizard.clusters
    /\ wizard.op \in {"move", "create", "delete"} =>
           todelete(wizard.clusters, wizard.segments) = {}

====
